---- MODULE Spec2Model ----
(***************************************************************************)
(* A model of the bloom diagram gallery:                                   *)
(*   - the UI shell: DiagramGallery (selection), useDiagram (asynchronous  *)
(*     build with a cancellation flag) and BloomRenderer (DOM mounting,    *)
(*     copying the SVG with its transient feedback);                       *)
(*   - the circumcentre formula of the geometry style (DrawCircumcircle)   *)
(*     and the constraint of its On rule;                                  *)
(*   - the eigen-line formula of the eigen diagram;                        *)
(*   - the diagram scripts: what each build function declares to the       *)
(*     engine, and in which order.                                         *)
(* Numbers are exact: the formulas are evaluated over the rationals (and   *)
(* over Q(sqrt r) for the eigen lines), a division by zero yields the      *)
(* non-finite values of IEEE arithmetic.                                    *)
(***************************************************************************)
EXTENDS Integers, Sequences, FiniteSets, TLC

VARIABLES
    phase,            \* "init" | "mounted" | "unmounted": life of DiagramGallery
    selectedDiagram,  \* DiagramGallery: useState<DiagramType>("geometry")
    buildFn,          \* the memoised callback handed to useDiagram
    runs,             \* the effect runs of useDiagram, oldest first
    diagram,          \* useDiagram: useState<Diagram | null>(null)
    nWrites,          \* number of setDiagram calls made so far
    uncaught,         \* an exception escaped the hook or the renderer effect
    propDiagram,      \* the diagram prop of BloomRenderer at its last render
    container,        \* children of containerRef.current, in order
    mountThrew,       \* the last mount attempt of the render effect threw
    clicks,           \* parity of the number of tab clicks handled so far
    pts,              \* geometry: icon.center of the points p, q, r of DrawCircumcircle
    circle,           \* geometry: c.circle, the circle drawn by the rule
    canvasVec,        \* eigen: canvasVec of the basis vectors ihat and jhat
    onRule,           \* geometry: what the On rule computes for p and the edge q r
    eigen,            \* eigen: the values the style computes from them
    call,             \* scripts: the build function called last and its promise
    db,               \* scripts: the DiagramBuilder of that call
    nBuilders,        \* scripts: number of builders created so far
    layout,           \* scripts: icon centres of the diagram the engine built
    segments,         \* geometry domain: the Segment calls made, with their results
    copyFeedback,     \* BloomRenderer: useState<string>("")
    clipboard,        \* the text on the system clipboard
    copies,           \* the copy requests made so far, oldest first
    feedbackBy        \* the copy request whose message is displayed, 0 for none

uiVars == <<phase, selectedDiagram, buildFn, runs, diagram, nWrites, uncaught,
            propDiagram, container, mountThrew, clicks>>

circVars == <<pts, circle, onRule>>

eigVars == <<canvasVec, eigen>>

bldVars == <<call, db, nBuilders, layout, segments>>

cpVars == <<copyFeedback, clipboard, copies, feedbackBy>>

vars == <<uiVars, circVars, eigVars, bldVars, cpVars>>

\* what the UI shell leaves alone, and what the formulas leave alone
notUI == <<circVars, eigVars, bldVars, cpVars>>
notCirc == <<uiVars, eigVars, bldVars, cpVars>>
notEig == <<uiVars, circVars, bldVars, cpVars>>
notBld == <<uiVars, circVars, eigVars, cpVars>>
notCopy == <<uiVars, circVars, eigVars, bldVars>>

(***************************************************************************)
(* Bounds.                                                                 *)
(***************************************************************************)
MaxRuns == 3
\* canvas coordinates of the geometry points range over -1 .. MaxCoord
MaxCoord == 1
\* a handle of the eigen diagram is dropped on a tick of the axes, -1 .. MaxTick
MaxTick == 3
\* build functions are called at most MaxCalls times
MaxCalls == 2
\* the engine spreads the icons by a scale of 0, 10, .. 10 * MaxScale
MaxScale == 3
\* at most MaxPoints points and MaxSegments segments are created
MaxPoints == 2
MaxSegments == 3
\* at most MaxCopies copy requests are made
MaxCopies == 2
\* the On rule is evaluated on the canvas grid 0 .. MaxOn
MaxOn == 3

(***************************************************************************)
(* DiagramGallery.                                                         *)
(***************************************************************************)
NULL == 0

\* the script table; a Diagram object is identified by the run that built it
diagrams ==
    << [id |-> "arrow",    buildFunction |-> "createArrowDiagram"],
       [id |-> "circle",   buildFunction |-> "createCircleDiagram"],
       [id |-> "eigen",    buildFunction |-> "createEigenDiagram"],
       [id |-> "geometry", buildFunction |-> "createGeometryDiagram"] >>

DiagramType == {"arrow", "circle", "eigen", "geometry"}

\* variant: the lookup returns the first entry of the table
FindFirst(sel) == diagrams[1]

\* diagrams.find(d => d.id === sel): the first match, or "undefined"
Find(sel) ==
    LET hits == {i \in 1..Len(diagrams) : diagrams[i].id = sel}
    IN  IF hits = {} THEN "undefined"
        ELSE diagrams[CHOOSE i \in hits : \A j \in hits : i <= j]

\* variant: a new callback is made on every render
UseCallbackAlwaysNew(prev, prevDep, dep) ==
    [ident |-> prev.ident + 1, calls |-> Find(dep).buildFunction]

\* useCallback(() => currentConfig.buildFunction(), [selectedDiagram]):
\* the previous callback is kept while the dependency is unchanged
UseCallback(prev, prevDep, dep) ==
    IF dep = prevDep THEN prev
    ELSE [ident |-> prev.ident + 1, calls |-> Find(dep).buildFunction]

\* the gallery's loading text is shown when the diagram is falsy
ShowsLoading(d) == d = NULL

(***************************************************************************)
(* useDiagram.                                                             *)
(***************************************************************************)
\* one effect run: its closure variable `cancelled` and the promise of its build
NewRun(fn) ==
    [fn |-> fn, cancelled |-> FALSE, status |-> "pending", calls |-> 1,
     applied |-> FALSE]

\* variant: the effect starts the build without resetting the state
EffectKeepsValue(d) == d

\* setDiagram(null) at the start of every effect run
EffectResetValue(d) == NULL

\* variant: the cleanup forgets to set the flag
CleanupNoop(run) == run

\* variant: the cleanup also aborts the build in flight
CleanupAborts(run) ==
    [run EXCEPT !.cancelled = TRUE,
                !.status = IF run.status = "pending" THEN "aborted" ELSE run.status]

\* variant: the cleanup spares a run whose build is still in flight
CleanupSparesPending(run) ==
    [run EXCEPT !.cancelled = (run.status # "pending")]

\* the cleanup returned by the effect: cancelled = true, and nothing else
CleanupRun(run) == [run EXCEPT !.cancelled = TRUE]

\* variant: the outcome is applied whatever the flag says
ShouldApplyAlways(run) == TRUE

\* if (!cancelled) in both branches of the try/catch
ShouldApply(run) == ~run.cancelled

\* variant: the try branch never writes
OnFulfilledDrops(run, built, d) == [value |-> d, wrote |-> FALSE]

\* variant: the try branch writes without looking at the flag
OnFulfilledUnguarded(run, built, d) == [value |-> built, wrote |-> TRUE]

\* try branch: built is written when the run is not cancelled
OnFulfilled(run, built, d) ==
    IF ShouldApply(run) THEN [value |-> built, wrote |-> TRUE]
    ELSE [value |-> d, wrote |-> FALSE]

\* variant: the catch branch starts the build once more
OnRejectedRetries(run, d) ==
    [value    |-> IF ShouldApply(run) THEN NULL ELSE d,
     wrote    |-> ShouldApply(run),
     status   |-> IF run.calls < 2 THEN "pending" ELSE "rejected",
     calls    |-> IF run.calls < 2 THEN run.calls + 1 ELSE run.calls,
     uncaught |-> FALSE]

\* catch branch: the error is logged, null is written when not cancelled;
\* the build is not started again
OnRejected(run, d) ==
    [value    |-> IF ShouldApply(run) THEN NULL ELSE d,
     wrote    |-> ShouldApply(run),
     status   |-> "rejected",
     calls    |-> run.calls,
     uncaught |-> FALSE]

Cur == Len(runs)

(***************************************************************************)
(* BloomRenderer.                                                          *)
(***************************************************************************)
\* variant: the element is appended without emptying the container first
RenderEffectNoClear(cont, d, ok) ==
    IF d = NULL THEN cont
    ELSE IF ok THEN Append(cont, d) ELSE cont

\* variant: a failed mount leaves the previously mounted element in place
RenderEffectKeepsOld(cont, d, ok) ==
    IF d = NULL THEN cont
    ELSE IF ok THEN Append(<<>>, d) ELSE cont

\* variant: a null diagram empties the container
RenderEffectClearsOnNull(cont, d, ok) ==
    IF d = NULL THEN <<>>
    ELSE IF ok THEN Append(<<>>, d) ELSE <<>>

\* the render effect: returns when the diagram is null, otherwise empties the
\* container and appends the interactive element (ok: nothing threw)
RenderEffect(cont, d, ok) ==
    IF d = NULL THEN cont
    ELSE IF ok THEN Append(<<>>, d) ELSE <<>>

(***************************************************************************)
(* Actions of the UI shell.                                                *)
(***************************************************************************)
InitUI ==
    /\ phase = "init"
    /\ selectedDiagram = "geometry"
    /\ buildFn = [ident |-> 1, calls |-> Find("geometry").buildFunction]
    /\ runs = <<>>
    /\ diagram = NULL
    /\ nWrites = 0
    /\ uncaught = FALSE
    /\ propDiagram = NULL
    /\ container = <<>>
    /\ mountThrew = FALSE
    /\ clicks = 0

\* first render and commit.  Under React.StrictMode (development build) the
\* effect is run, cleaned up and run again in the same commit.
Mount(strict) ==
    /\ phase = "init"
    /\ phase' = "mounted"
    /\ runs' = IF strict
               THEN <<CleanupRun(NewRun(buildFn)), NewRun(buildFn)>>
               ELSE <<NewRun(buildFn)>>
    /\ diagram' = EffectResetValue(diagram)
    /\ nWrites' = nWrites + (IF strict THEN 2 ELSE 1)
    /\ container' = RenderEffect(container, propDiagram, TRUE)
    /\ UNCHANGED <<selectedDiagram, buildFn, uncaught, propDiagram, mountThrew,
                   clicks>>
    /\ UNCHANGED notUI

\* onClick={() => setSelectedDiagram(config.id)}, the synchronous re-render,
\* and the effects of that commit
SelectTab(id) ==
    /\ phase = "mounted"
    /\ clicks' = 1 - clicks
    /\ LET fn == UseCallback(buildFn, selectedDiagram, id)
       IN  IF fn = buildFn
           THEN /\ UNCHANGED <<phase, selectedDiagram, buildFn, runs, diagram,
                               nWrites, uncaught, propDiagram, container,
                               mountThrew>>
                /\ UNCHANGED notUI
           ELSE /\ Len(runs) < MaxRuns
                /\ selectedDiagram' = id
                /\ buildFn' = fn
                /\ runs' = Append([runs EXCEPT ![Cur] = CleanupRun(runs[Cur])],
                                  NewRun(fn))
                /\ diagram' = EffectResetValue(diagram)
                /\ nWrites' = nWrites + 1
                /\ propDiagram' = EffectResetValue(diagram)
                /\ container' = RenderEffect(container, EffectResetValue(diagram), TRUE)
                /\ UNCHANGED <<phase, uncaught, mountThrew>>
                /\ UNCHANGED notUI

\* the promise of run r fulfils with a new Diagram object (identified by r)
BuildResolves(r) ==
    /\ r \in 1..Len(runs)
    /\ runs[r].status = "pending"
    /\ LET res == OnFulfilled(runs[r], r, diagram)
       IN  /\ diagram' = res.value
           /\ nWrites' = nWrites + (IF res.wrote THEN 1 ELSE 0)
           /\ runs' = [runs EXCEPT ![r].status = "resolved",
                                   ![r].applied = res.wrote]
    /\ UNCHANGED <<phase, selectedDiagram, buildFn, uncaught, propDiagram,
                   container, mountThrew, clicks>>
    /\ UNCHANGED notUI

\* the promise of run r rejects
BuildRejects(r) ==
    /\ r \in 1..Len(runs)
    /\ runs[r].status = "pending"
    /\ LET res == OnRejected(runs[r], diagram)
       IN  /\ diagram' = res.value
           /\ nWrites' = nWrites + (IF res.wrote THEN 1 ELSE 0)
           /\ uncaught' = (uncaught \/ res.uncaught)
           /\ runs' = [runs EXCEPT ![r].status = res.status,
                                   ![r].calls = res.calls,
                                   ![r].applied = res.wrote]
    /\ UNCHANGED <<phase, selectedDiagram, buildFn, propDiagram, container,
                   mountThrew, clicks>>
    /\ UNCHANGED notUI

\* React re-renders after a state update made outside an event handler; the
\* render effect of BloomRenderer runs because its diagram prop changed
Commit(ok) ==
    /\ phase = "mounted"
    /\ propDiagram # diagram
    /\ propDiagram' = diagram
    /\ container' = RenderEffect(container, diagram, ok)
    /\ mountThrew' = (diagram # NULL /\ ~ok)
    /\ UNCHANGED <<phase, selectedDiagram, buildFn, runs, diagram, nWrites,
                   uncaught, clicks>>
    /\ UNCHANGED notUI

\* the gallery is removed: the cleanup of the last effect run is executed
Unmount ==
    /\ phase = "mounted"
    /\ phase' = "unmounted"
    /\ runs' = [runs EXCEPT ![Cur] = CleanupRun(runs[Cur])]
    /\ UNCHANGED <<selectedDiagram, buildFn, diagram, nWrites, uncaught,
                   propDiagram, container, mountThrew, clicks>>
    /\ UNCHANGED notUI

NextUI ==
    \/ \E strict \in BOOLEAN : Mount(strict)
    \/ \E id \in DiagramType : SelectTab(id)
    \/ \E r \in 1..MaxRuns : BuildResolves(r)
    \/ \E r \in 1..MaxRuns : BuildRejects(r)
    \/ \E ok \in BOOLEAN : Commit(ok)
    \/ Unmount

(***************************************************************************)
(* BloomRenderer: copying the SVG.  Time passes in steps of 1000 ms; a     *)
(* timer fires when it is due, before more time passes.                    *)
(***************************************************************************)
FeedbackDelay == 2000

\* the feedback texts: no svg in the container, the write resolved, something
\* threw or the write rejected
Message == [notFound |-> "SVG not found", copied |-> "SVG copied", failed |-> "copy failed"]

\* no text: the clipboard before any write, the markup of a failed serialization
NoText == <<>>

\* containerRef.current.querySelector('svg'): the svg of the mounted element
QuerySvg(cont) == IF cont = <<>> THEN NULL ELSE cont[1]

\* new XMLSerializer().serializeToString(svgElement): the markup of the element
Serialize(svg) == <<"svg", svg>>

\* the handler up to its first await or return.  threw: serializeToString or
\* the call of writeText threw.  near: the requests made shortly before
StartCopy(cont, threw, near) ==
    LET c == [phase |-> "set", write |-> "none", text |-> NoText, msg |-> "",
              handler |-> "fulfilled", left |-> 0, sinceMade |-> 0,
              shownFor |-> 0, nearMade |-> near, nearSet |-> {}]
    IN  IF QuerySvg(cont) = NULL THEN [c EXCEPT !.msg = Message.notFound]
        ELSE IF threw THEN [c EXCEPT !.write = "threw", !.msg = Message.failed]
        ELSE [c EXCEPT !.phase = "writing", !.write = "pending",
                       !.text = Serialize(QuerySvg(cont)), !.handler = "pending"]

\* after the await: the success feedback
WriteResolved(c) ==
    [c EXCEPT !.phase = "set", !.write = "resolved", !.msg = Message.copied,
              !.handler = "fulfilled"]

\* variant: no catch block, the rejection leaves the handler
WriteRejectedUncaught(c) ==
    [c EXCEPT !.phase = "done", !.write = "rejected", !.handler = "rejected"]

\* the catch block: the error is logged, the failure feedback is set
WriteRejected(c) ==
    [c EXCEPT !.phase = "set", !.write = "rejected", !.msg = Message.failed,
              !.handler = "fulfilled"]

\* variant: the feedback is set without a timer
NoTimer(c) == [c EXCEPT !.phase = "done"]

\* setTimeout(() => setCopyFeedback(""), 2000)
StartTimer(c) == [c EXCEPT !.phase = "timer", !.left = FeedbackDelay]

\* variant: a timer clears only the message of its own request
TimerClearsOwn(i, by, text) == IF by = i THEN "" ELSE text

\* () => setCopyFeedback(""): the callback of the timer of request i
TimerClears(i, by, text) == ""

\* requests whose feedback was set before, and less than the delay ago
SetShortlyBefore(cs, j) ==
    {i \in 1..Len(cs) : i # j /\ cs[i].phase = "timer"
                          /\ cs[i].left > 0 /\ cs[i].left < FeedbackDelay}

\* requests made before, and less than the delay ago
MadeShortlyBefore(cs) ==
    {i \in 1..Len(cs) : cs[i].sinceMade > 0 /\ cs[i].sinceMade < FeedbackDelay}

\* setCopyFeedback(msg); setTimeout(..), when request j has reached them
Publish(j, cs) ==
    IF cs[j].phase = "set"
    THEN /\ copyFeedback' = cs[j].msg
         /\ feedbackBy' = j
         /\ copies' = [cs EXCEPT ![j] =
                          StartTimer([cs[j] EXCEPT !.nearSet = SetShortlyBefore(cs, j)])]
    ELSE /\ copies' = cs
         /\ UNCHANGED <<copyFeedback, feedbackBy>>

\* no copy request has been made
IdleCopy ==
    /\ copyFeedback = ""
    /\ clipboard = NoText
    /\ copies = <<>>
    /\ feedbackBy = 0

\* the gallery after its first build: the diagram is displayed (ok), or
\* mounting its element threw and the container is empty
ShownUI(ok) ==
    /\ phase = "mounted"
    /\ selectedDiagram = "geometry"
    /\ buildFn = [ident |-> 1, calls |-> Find("geometry").buildFunction]
    /\ runs = <<[NewRun(buildFn) EXCEPT !.status = "resolved", !.applied = TRUE]>>
    /\ diagram = 1
    /\ nWrites = 2
    /\ uncaught = FALSE
    /\ propDiagram = 1
    /\ container = RenderEffect(<<>>, 1, ok)
    /\ mountThrew = ~ok
    /\ clicks = 0

\* onClick={copySvgToClipboard}: the button exists while the diagram is not
\* null; the handler returns at once when containerRef.current is null
CopyRequest(threw) ==
    /\ phase = "mounted"
    /\ propDiagram # NULL
    /\ Len(copies) < MaxCopies
    /\ Publish(Len(copies) + 1,
               Append(copies, StartCopy(container, threw, MadeShortlyBefore(copies))))
    /\ UNCHANGED clipboard
    /\ UNCHANGED notCopy

\* navigator.clipboard.writeText(svgString) resolves
WriteResolves(i) ==
    /\ i \in 1..Len(copies)
    /\ copies[i].phase = "writing"
    /\ clipboard' = copies[i].text
    /\ Publish(i, [copies EXCEPT ![i] = WriteResolved(copies[i])])
    /\ UNCHANGED notCopy

\* navigator.clipboard.writeText(svgString) rejects
WriteRejects(i) ==
    /\ i \in 1..Len(copies)
    /\ copies[i].phase = "writing"
    /\ Publish(i, [copies EXCEPT ![i] = WriteRejected(copies[i])])
    /\ UNCHANGED clipboard
    /\ UNCHANGED notCopy

\* the timer of request i is due
TimerFires(i) ==
    /\ i \in 1..Len(copies)
    /\ copies[i].phase = "timer"
    /\ copies[i].left = 0
    /\ copyFeedback' = TimerClears(i, feedbackBy, copyFeedback)
    /\ feedbackBy' = IF copyFeedback' = "" THEN 0 ELSE feedbackBy
    /\ copies' = [copies EXCEPT ![i].phase = "done"]
    /\ UNCHANGED clipboard
    /\ UNCHANGED notCopy

\* 1000 ms pass
Tick ==
    /\ \A i \in 1..Len(copies) : copies[i].phase = "timer" => copies[i].left > 0
    /\ copies' = [i \in 1..Len(copies) |->
                    [copies[i] EXCEPT
                        !.left = IF copies[i].phase = "timer" THEN @ - 1000 ELSE @,
                        !.sinceMade = IF @ < FeedbackDelay THEN @ + 1000 ELSE @,
                        !.shownFor = IF feedbackBy = i THEN @ + 1000 ELSE @]]
    /\ UNCHANGED <<copyFeedback, clipboard, feedbackBy>>
    /\ UNCHANGED notCopy

NextCopy ==
    \/ \E threw \in BOOLEAN : CopyRequest(threw)
    \/ \E i \in 1..MaxCopies : WriteResolves(i)
    \/ \E i \in 1..MaxCopies : WriteRejects(i)
    \/ \E i \in 1..MaxCopies : TimerFires(i)
    \/ Tick

(***************************************************************************)
(* Numbers.  A finite number is (p + q * sqrt(r)) / d with integers p, q,  *)
(* r, d, kept in lowest terms with d > 0, r not a perfect square (r = 0    *)
(* when q = 0); the other values are Infinity (with its sign) and          *)
(* NaN, as the engine's floating-point division produces them.             *)
(***************************************************************************)
Abs(n) == IF n < 0 THEN -n ELSE n

RECURSIVE GCD(_, _)
GCD(m, n) == IF n = 0 THEN m ELSE GCD(n, m % n)

RECURSIVE SqrtFrom(_, _)
SqrtFrom(n, x) ==
    LET y == (x + n \div x) \div 2
    IN  IF y >= x THEN x ELSE SqrtFrom(n, y)

\* floor of the square root of n >= 0 (Newton's iteration from above)
ISqrt(n) == IF n < 2 THEN n ELSE SqrtFrom(n, n)

IsSquare(n) == n >= 0 /\ ISqrt(n) * ISqrt(n) = n

NaN == [k |-> "nan"]
Inf(sg) == [k |-> "inf", s |-> sg]

\* (pp + qq * sqrt(rr)) / dd in lowest terms, dd # 0, rr not a perfect square
Fin(pp, qq, rr, dd) ==
    LET g0 == GCD(GCD(Abs(pp), Abs(qq)), Abs(dd))
        g  == IF dd < 0 THEN 0 - g0 ELSE g0
    IN  [k |-> "fin", p |-> pp \div g, q |-> qq \div g,
         r |-> IF qq = 0 THEN 0 ELSE rr, d |-> dd \div g]

Num(n) == Fin(n, 0, 0, 1)

IsFinite(x) == x.k = "fin"

\* the radicand two finite numbers share
Rad(x, y) == IF x.q # 0 THEN x.r ELSE y.r

\* -1, 0 or 1: the sign of a finite number
Sign(x) ==
    LET sp == IF x.p > 0 THEN 1 ELSE IF x.p < 0 THEN -1 ELSE 0
        sq == IF x.q > 0 THEN 1 ELSE IF x.q < 0 THEN -1 ELSE 0
    IN  IF sq = 0 THEN sp
        ELSE IF sp = 0 \/ sp = sq THEN sq
        ELSE IF x.p * x.p > x.q * x.q * x.r THEN sp
        ELSE IF x.p * x.p < x.q * x.q * x.r THEN sq ELSE 0

SignOf(x) == IF x.k = "inf" THEN x.s ELSE Sign(x)

\* bloom.add
NumAdd(x, y) ==
    IF x.k = "nan" \/ y.k = "nan" THEN NaN
    ELSE IF x.k = "inf" /\ y.k = "inf" THEN (IF x.s = y.s THEN x ELSE NaN)
    ELSE IF x.k = "inf" THEN x
    ELSE IF y.k = "inf" THEN y
    ELSE LET l == (x.d * y.d) \div GCD(x.d, y.d)
         IN  Fin(x.p * (l \div x.d) + y.p * (l \div y.d),
                 x.q * (l \div x.d) + y.q * (l \div y.d), Rad(x, y), l)

\* bloom.mul
NumMul(x, y) ==
    IF x.k = "nan" \/ y.k = "nan" THEN NaN
    ELSE IF x.k = "inf" \/ y.k = "inf"
         THEN (IF SignOf(x) * SignOf(y) = 0 THEN NaN ELSE Inf(SignOf(x) * SignOf(y)))
    ELSE Fin(x.p * y.p + x.q * y.q * Rad(x, y), x.p * y.q + x.q * y.p,
             Rad(x, y), x.d * y.d)

NumNeg(x) == NumMul(Num(-1), x)

\* bloom.sub
NumSub(x, y) == NumAdd(x, NumNeg(y))

\* bloom.div, for a rational divisor (every divisor of the formulas is one):
\* x / 0 is NaN for x = 0 and an infinity otherwise
NumDiv(x, y) ==
    IF x.k = "nan" \/ y.k = "nan" THEN NaN
    ELSE IF y.k = "inf" THEN (IF x.k = "inf" THEN NaN ELSE Num(0))
    ELSE IF Sign(y) = 0
         THEN (IF SignOf(x) = 0 THEN NaN ELSE Inf(SignOf(x)))
    ELSE IF x.k = "inf" THEN Inf(x.s * Sign(y))
    ELSE Fin(x.p * y.d, x.q * y.d, x.r, x.d * y.p)

\* the square root of the natural number n over the denominator e
RootOver(n, e) ==
    LET k == ISqrt(n)
    IN  IF k * k = n THEN Fin(k, 0, 0, e) ELSE Fin(0, 1, n, e)

\* bloom.sqrt, for a rational operand p / d: sqrt(p) / sqrt(d) when d is a
\* square, sqrt(p * d) / d otherwise
NumSqrt(x) ==
    IF x.k = "nan" THEN NaN
    ELSE IF x.k = "inf" THEN (IF x.s > 0 THEN x ELSE NaN)
    ELSE IF x.p < 0 THEN NaN
    ELSE IF IsSquare(x.d) THEN RootOver(x.p, ISqrt(x.d))
    ELSE RootOver(x.p * x.d, x.d)

\* bloom.ops.vdist
VDist(u, v) ==
    LET dx == NumSub(u[1], v[1])
        dy == NumSub(u[2], v[2])
    IN  NumSqrt(NumAdd(NumMul(dx, dx), NumMul(dy, dy)))

\* a unit vector (x, y) / sqrt(n2) is kept as its direction and squared norm
\* bloom.ops.vnormalize: v / |v|, with |v| = 0, Infinity or NaN as IEEE has it
VNormalize(v) ==
    LET n2 == NumAdd(NumMul(v[1], v[1]), NumMul(v[2], v[2]))
    IN  IF n2.k = "nan" THEN [x |-> NaN, y |-> NaN, n2 |-> Num(1)]
        ELSE IF n2.k = "inf"
             THEN [x |-> NumDiv(v[1], n2), y |-> NumDiv(v[2], n2), n2 |-> Num(1)]
        ELSE IF Sign(n2) = 0 THEN [x |-> NaN, y |-> NaN, n2 |-> Num(1)]
        ELSE [x |-> v[1], y |-> v[2], n2 |-> n2]

(***************************************************************************)
(* The geometry style: the DrawCircumcircle rule and the On rule.           *)
(***************************************************************************)
Coord == (0 - 1) .. MaxCoord

\* D = 2 * (x1 * (y2 - y3) + x2 * (y3 - y1) + x3 * (y1 - y2))
CircumD(x1, y1, x2, y2, x3, y3) ==
    NumMul(Num(2),
           NumAdd(NumMul(x1, NumSub(y2, y3)),
                  NumAdd(NumMul(x2, NumSub(y3, y1)),
                         NumMul(x3, NumSub(y1, y2)))))

SqNorm(x, y) == NumAdd(NumMul(x, x), NumMul(y, y))

\* variant: the first difference of ux is taken the other way round
CircumUxSwapped(x1, y1, x2, y2, x3, y3) ==
    NumDiv(NumAdd(NumMul(SqNorm(x1, y1), NumSub(y3, y2)),
                  NumAdd(NumMul(SqNorm(x2, y2), NumSub(y3, y1)),
                         NumMul(SqNorm(x3, y3), NumSub(y1, y2)))),
           CircumD(x1, y1, x2, y2, x3, y3))

\* ux = ((x1^2+y1^2)(y2-y3) + (x2^2+y2^2)(y3-y1) + (x3^2+y3^2)(y1-y2)) / D
CircumUx(x1, y1, x2, y2, x3, y3) ==
    NumDiv(NumAdd(NumMul(SqNorm(x1, y1), NumSub(y2, y3)),
                  NumAdd(NumMul(SqNorm(x2, y2), NumSub(y3, y1)),
                         NumMul(SqNorm(x3, y3), NumSub(y1, y2)))),
           CircumD(x1, y1, x2, y2, x3, y3))

\* uy = ((x1^2+y1^2)(x3-x2) + (x2^2+y2^2)(x1-x3) + (x3^2+y3^2)(x2-x1)) / D
CircumUy(x1, y1, x2, y2, x3, y3) ==
    NumDiv(NumAdd(NumMul(SqNorm(x1, y1), NumSub(x3, x2)),
                  NumAdd(NumMul(SqNorm(x2, y2), NumSub(x1, x3)),
                         NumMul(SqNorm(x3, y3), NumSub(x2, x1)))),
           CircumD(x1, y1, x2, y2, x3, y3))

\* variant: a zero denominator is replaced by 1 before dividing
GuardedCircumcircle(p, q, r) ==
    LET dd == CircumD(p[1], p[2], q[1], q[2], r[1], r[2])
        center == IF Sign(dd) = 0 THEN <<Num(0), Num(0)>>
                  ELSE <<CircumUx(p[1], p[2], q[1], q[2], r[1], r[2]),
                         CircumUy(p[1], p[2], q[1], q[2], r[1], r[2])>>
    IN  [center |-> center, r |-> VDist(center, p)]

\* the body of the rule: c.circle = circle({ r: circumradius, center: circumcenter })
DrawCircumcircle(p, q, r) ==
    LET center == <<CircumUx(p[1], p[2], q[1], q[2], r[1], r[2]),
                    CircumUy(p[1], p[2], q[1], q[2], r[1], r[2])>>
    IN  [center |-> center, r |-> VDist(center, p)]

Pt(x, y) == <<Num(x), Num(y)>>

\* c.circle before the rule has run
NoCircle == [drawn |-> FALSE]

Drawn(c) == "center" \in DOMAIN c

\* the squared distance of two unit vectors u and v, each kept as a direction
\* and its squared norm: |u|^2 + |v|^2 - 2 (u . v) = 2 - 2 (du . dv) / sqrt(N),
\* N the product of the squared norms; NaN when a zero vector was normalised
UnitDist2(u, v) ==
    LET dot == NumAdd(NumMul(u.x, v.x), NumMul(u.y, v.y))
        N   == NumMul(u.n2, v.n2)
    IN  NumSub(Num(2), NumDiv(NumMul(NumMul(Num(2), dot), NumSqrt(N)), N))

\* variant: the second vector points from the end of the edge to the point
OnRuleFromEnd(p, start, end) ==
    LET v1 == << NumSub(p[1], start[1]), NumSub(p[2], start[2]) >>
        v2 == << NumSub(p[1], end[1]), NumSub(p[2], end[2]) >>
    IN  [v1 |-> v1, v2 |-> v2,
         distance2 |-> UnitDist2(VNormalize(v1), VNormalize(v2))]

\* the On rule: v1 = vsub(p.icon.center, s.icon.start), v2 = vsub(s.icon.end,
\* p.icon.center), distance = vdist(vnormalize(v1), vnormalize(v2)), kept as
\* its square
OnRule(p, start, end) ==
    LET v1 == << NumSub(p[1], start[1]), NumSub(p[2], start[2]) >>
        v2 == << NumSub(end[1], p[1]), NumSub(end[2], p[2]) >>
    IN  [v1 |-> v1, v2 |-> v2,
         distance2 |-> UnitDist2(VNormalize(v1), VNormalize(v2))]

\* ensure(equal(distance, 0)) is satisfied
EqualZero(o) == IsFinite(o.distance2) /\ Sign(o.distance2) = 0

\* s.icon and p.icon before the rule has run
NoOn == [drawn |-> FALSE]

\* the engine places the three points anywhere on the canvas grid
InitCirc ==
    /\ pts \in [{"p", "q", "r"} -> {Pt(x, y) : x \in Coord, y \in Coord}]
    /\ circle = DrawCircumcircle(pts["p"], pts["q"], pts["r"])
    /\ onRule = NoOn

\* the grid on which the engine moves the point p and the end r of the edge,
\* and the corner of it in which it moves the start q
OnCoord(n) == IF n = "q" THEN 0 .. 1 ELSE 0 .. MaxOn

\* a layout the engine starts from
InitOn ==
    /\ pts = [n \in {"p", "q", "r"} |->
                IF n = "p" THEN Pt(1, 0) ELSE IF n = "q" THEN Pt(0, 0) ELSE Pt(0, 1)]
    /\ circle = NoCircle
    /\ onRule = OnRule(pts["p"], pts["q"], pts["r"])

\* the engine moves a point by one grid step in search of a layout; the rule
\* is re-evaluated
MovePoint(n, dx, dy) ==
    /\ pts[n][1].p + dx \in OnCoord(n)
    /\ pts[n][2].p + dy \in OnCoord(n)
    /\ pts' = [pts EXCEPT ![n] = Pt(pts[n][1].p + dx, pts[n][2].p + dy)]
    /\ onRule' = OnRule(pts'["p"], pts'["q"], pts'["r"])
    /\ UNCHANGED circle
    /\ UNCHANGED notCirc

NextOn ==
    \E n \in {"p", "q", "r"}, dx \in {0 - 1, 0, 1}, dy \in {0 - 1, 0, 1} : MovePoint(n, dx, dy)

\* the geometry diagram is not on screen
IdleCirc ==
    /\ pts = [n \in {"p", "q", "r"} |-> Pt(0, 0)]
    /\ circle = NoCircle
    /\ onRule = NoOn

\* a point (drag: true) is dragged by one pointer move, to a neighbouring grid
\* position; the engine re-evaluates the circle
DragPoint(n, dx, dy) ==
    /\ pts[n][1].p + dx \in Coord
    /\ pts[n][2].p + dy \in Coord
    /\ pts' = [pts EXCEPT ![n] = Pt(pts[n][1].p + dx, pts[n][2].p + dy)]
    /\ circle' = DrawCircumcircle(pts'["p"], pts'["q"], pts'["r"])
    /\ UNCHANGED onRule
    /\ UNCHANGED notCirc

NextCirc ==
    \E n \in {"p", "q", "r"}, dx \in {0 - 1, 0, 1}, dy \in {0 - 1, 0, 1} : DragPoint(n, dx, dy)

(***************************************************************************)
(* The eigen diagram.  Canvas coordinates are integers: x counts units of  *)
(* xScale / 30 and y units of yScale / 30, so that the axes origin         *)
(* [-canvasHeight / 6, -2 * canvasHeight / 5] is (OriginX, OriginY).       *)
(***************************************************************************)
OriginX == -40
OriginY == -72
XScale == 30
YScale == 30

canvasHeight == 400

\* origin as the script writes it: [-canvasHeight / 6, (-2 * canvasHeight) / 5]
Origin == << NumDiv(Num(0 - canvasHeight), Num(6)), NumDiv(Num(-2 * canvasHeight), Num(5)) >>

\* ensure(greaterThan(v.vec[0], origin[0])); ensure(greaterThan(v.vec[1], origin[1]))
VecGreaterThanOrigin(vec) ==
    /\ IsFinite(vec[1]) /\ Sign(NumSub(vec[1], Origin[1])) > 0
    /\ IsFinite(vec[2]) /\ Sign(NumSub(vec[2], Origin[2])) > 0

\* bloom.ops.mtrans of a 2 x 2 matrix given by its rows
MTrans(m) == << <<m[1][1], m[2][1]>>, <<m[1][2], m[2][2]>> >>

\* bloom.ops.mvmul
MvMul(m, v) ==
    << NumAdd(NumMul(m[1][1], v[1]), NumMul(m[1][2], v[2])),
       NumAdd(NumMul(m[2][1], v[1]), NumMul(m[2][2], v[2])) >>

\* v.vec = ewvvdiv(vsub(v.canvasVec, origin), [xScale, yScale])
VecOf(cv) ==
    << NumDiv(NumSub(Num(cv[1]), Num(OriginX)), Num(XScale)),
       NumDiv(NumSub(Num(cv[2]), Num(OriginY)), Num(YScale)) >>

\* variant: the handle is not constrained
DragUnconstrained(x, y) == << x, y >>

\* dragConstraint: ([x, y]) => [Math.max(origin[0], x), Math.max(origin[1], y)]
DragConstraint(x, y) ==
    << IF OriginX >= x THEN OriginX ELSE x, IF OriginY >= y THEN OriginY ELSE y >>

\* variant: the product a * d enters the radicand with the wrong sign
EigenDiscPlus(a, b, c, d) ==
    NumAdd(NumAdd(NumAdd(NumMul(a, a), NumMul(Num(4), NumMul(b, c))),
                  NumMul(Num(2), NumMul(a, d))),
           NumMul(d, d))

\* the radicand: a*a + 4*(b*c) + (-2)*(a*d) + d*d
EigenDisc(a, b, c, d) ==
    NumAdd(NumAdd(NumAdd(NumMul(a, a), NumMul(Num(4), NumMul(b, c))),
                  NumMul(Num(-2), NumMul(a, d))),
           NumMul(d, d))

\* variant: the outer factor -1 is missing
EigenDir1Unnegated(a, b, c, d) ==
    << NumDiv(NumAdd(NumAdd(NumMul(Num(-1), a), d), NumSqrt(EigenDisc(a, b, c, d))),
              NumMul(Num(2), c)),
       Num(1) >>

\* the array normalised into el1.vec: [(-1 * ((-1 * a + d) + sqrt(..))) / (2 * c), 1]
EigenDir1(a, b, c, d) ==
    << NumDiv(NumMul(Num(-1),
                     NumAdd(NumAdd(NumMul(Num(-1), a), d),
                            NumSqrt(EigenDisc(a, b, c, d)))),
              NumMul(Num(2), c)),
       Num(1) >>

\* variant: the division is guarded, a direction along the x axis for c = 0
EigenDir2Guarded(a, b, c, d) ==
    IF Sign(c) = 0 THEN << Num(1), Num(0) >>
    ELSE << NumDiv(NumMul(Num(-1),
                          NumAdd(NumAdd(NumMul(Num(-1), a), d),
                                 NumMul(Num(-1), NumSqrt(EigenDisc(a, b, c, d))))),
                   NumMul(Num(2), c)),
            Num(1) >>

\* the array normalised into el2.vec: [(-1 * ((-1 * a + d) + -1 * sqrt(..))) / (2 * c), 1]
EigenDir2(a, b, c, d) ==
    << NumDiv(NumMul(Num(-1),
                     NumAdd(NumAdd(NumMul(Num(-1), a), d),
                            NumMul(Num(-1), NumSqrt(EigenDisc(a, b, c, d))))),
              NumMul(Num(2), c)),
       Num(1) >>

\* p.v2 = mvmul(mtrans([ihat.vec, jhat.vec]), p.v1): the map applied to a vector
MapOf(ihat, jhat, v) == MvMul(MTrans(<<ihat, jhat>>), v)

\* input({ init: 1 * xScale + origin[0] }) and the other initial positions
InitCanvasVec ==
    [v \in {"ihat", "jhat"} |->
        IF v = "ihat" THEN <<XScale + OriginX, (2 * YScale) \div 5 + OriginY>>
        ELSE <<XScale \div 2 + OriginX, YScale + OriginY>>]

InitCanvasV1 == <<(3 * XScale) \div 2 + OriginX, 3 * YScale + OriginY>>

\* what applyStyle computes from the positions of the two basis vectors (the
\* mapped point stays where it is created)
EigenStyle(cv) ==
    LET ihat == VecOf(cv["ihat"])
        jhat == VecOf(cv["jhat"])
        v1   == VecOf(InitCanvasV1)
    IN  [ihat |-> ihat,
         jhat |-> jhat,
         v1   |-> v1,
         v2   |-> MapOf(ihat, jhat, v1),
         el1  |-> VNormalize(EigenDir1(ihat[1], jhat[1], ihat[2], jhat[2])),
         el2  |-> VNormalize(EigenDir2(ihat[1], jhat[1], ihat[2], jhat[2]))]

InitEig ==
    /\ canvasVec = InitCanvasVec
    /\ eigen = EigenStyle(InitCanvasVec)

\* the eigen diagram is not on screen
IdleEig ==
    /\ canvasVec = InitCanvasVec
    /\ eigen = [drawn |-> FALSE]

\* where a handle can be dropped: the ticks of the axes and one tick outside
DropX == {OriginX + k * XScale : k \in (0 - 1) .. MaxTick}
DropY == {OriginY + k * YScale : k \in (0 - 1) .. MaxTick}

\* v.handle is dragged to (x, y); the engine re-evaluates the style
DragBasisVector(v, x, y) ==
    /\ canvasVec' = [canvasVec EXCEPT ![v] = DragConstraint(x, y)]
    /\ eigen' = EigenStyle(canvasVec')
    /\ UNCHANGED notEig

NextEig ==
    \E v \in {"ihat", "jhat"}, x \in DropX, y \in DropY : DragBasisVector(v, x, y)

(***************************************************************************)
(* The diagram scripts.  A builder records the calls a script makes on the *)
(* engine: the schema (types, predicates), the instances and facts, the    *)
(* style rules with the texts and constraints they declare, and build.     *)
(* An instance is identified by its position in the order of creation.     *)
(***************************************************************************)
\* new bloom.DiagramBuilder(canvas, name, seed): the n-th builder created
NewBuilder(n) ==
    [id |-> n, log |-> <<"new">>, types |-> <<>>, preds |-> <<>>,
     insts |-> <<>>, facts |-> <<>>, labels |-> <<>>, texts |-> {},
     cons |-> {}, attrs |-> <<>>, builds |-> 0, promise |-> "none"]

\* db.type()
Type(d, name) ==
    [d EXCEPT !.types = Append(@, name), !.log = Append(@, "type")]

\* db.predicate()
Predicate(d, name) ==
    [d EXCEPT !.preds = Append(@, name), !.log = Append(@, "predicate")]

\* T(): a new instance of type T
NewSubstance(d, type) ==
    [d EXCEPT !.insts = Append(@, type), !.log = Append(@, "instance")]

\* the instance created last
Last(d) == Len(d.insts)

\* P(args): the predicate P is asserted of args
Fact(d, pred, args) ==
    [d EXCEPT !.facts = Append(@, [pred |-> pred, args |-> args]),
              !.log = Append(@, "fact")]

\* P.test(args)
Test(d, pred, args) ==
    \E i \in 1..Len(d.facts) : d.facts[i] = [pred |-> pred, args |-> args]

\* obj.label = str
SetLabel(d, obj, str) == [d EXCEPT !.labels = Append(@, <<obj, str>>)]

\* obj.label || dflt
LabelOr(d, obj, dflt) ==
    LET hits == {i \in 1..Len(d.labels) : d.labels[i][1] = obj}
    IN  IF hits = {} THEN dflt
        ELSE d.labels[CHOOSE i \in hits : \A j \in hits : j <= i][2]

InstancesOf(d, type) == {i \in 1..Len(d.insts) : d.insts[i] = type}

\* the assignments a selector ranges over: one instance of the declared type
\* for each variable, no instance bound to two variables
Matches1(d, t1) == {<<x>> : x \in InstancesOf(d, t1)}

\* variant: the engine lets two variables of a selector share an instance
Matches2Repeatable(d, t1, t2) ==
    {<<x, y>> : x \in InstancesOf(d, t1), y \in InstancesOf(d, t2)}

Matches2(d, t1, t2) ==
    {m \in {<<x, y>> : x \in InstancesOf(d, t1), y \in InstancesOf(d, t2)} :
        m[1] # m[2]}

Matches3(d, t1, t2, t3) ==
    {m \in {<<x, y, z>> : x \in InstancesOf(d, t1), y \in InstancesOf(d, t2),
                          z \in InstancesOf(d, t3)} :
        m[1] # m[2] /\ m[1] # m[3] /\ m[2] # m[3]}

\* forall(vars, body): the texts and constraints the body declares
ForAll(d, newTexts, newCons) ==
    [d EXCEPT !.log = Append(@, "forall"),
              !.texts = @ \cup newTexts, !.cons = @ \cup newCons]

\* forallWhere(vars, test, body)
ForAllWhere(d, newTexts, newCons) ==
    [d EXCEPT !.log = Append(@, "forallWhere"),
              !.texts = @ \cup newTexts, !.cons = @ \cup newCons]

\* ensure(constraint) called by the script itself
Ensure(d, con) ==
    [d EXCEPT !.log = Append(@, "ensure"), !.cons = @ \cup {con}]

\* bloom.constraints.greaterThan(vdist(a.icon.center, b.icon.center), bound)
GreaterThan(a, b, bound) ==
    [kind |-> "greaterThan", a |-> a, b |-> b, bound |-> bound]

\* bloom.constraints.equal(vdist(a.icon.center, b.icon.center), bound)
Equal(a, b, bound) ==
    [kind |-> "equal", a |-> a, b |-> b, bound |-> bound]

\* db.build()
Build(d) ==
    [d EXCEPT !.log = Append(@, "build"), !.builds = @ + 1,
              !.promise = "pending"]

\* return await db.build(): the promise of the build function settles as the
\* promise of the build does
ReturnAwait(outcome) == outcome

(***************************************************************************)
(* The arrow script.                                                       *)
(***************************************************************************)
pointRad == 30
pointMargin == 10

ArrowDomain(d) == Predicate(Type(Type(d, "Point"), "Arrow"), "Connects")

ArrowSubstance(d) ==
    LET d1    == NewSubstance(d, "Point")
        p1    == Last(d1)
        d2    == NewSubstance(d1, "Point")
        p2    == Last(d2)
        d3    == NewSubstance(d2, "Arrow")
        arrow == Last(d3)
    IN  Fact(d3, "Connects", <<arrow, p1, p2>>)

\* variant: the distance constraint is declared for every pair of points
ArrowStyleAllPairs(d) ==
    LET d1 == ForAll(d, {}, {})
    IN  ForAllWhere(d1, {},
            {GreaterThan(m[1], m[2], 2 * (pointRad + pointMargin) + 20) :
                m \in Matches2(d, "Point", "Point")})

ArrowStyle(d) ==
    LET d1 == ForAll(d, {}, {})
    IN  ForAllWhere(d1, {},
            {GreaterThan(m[2], m[3], 2 * (pointRad + pointMargin) + 20) :
                m \in {t \in Matches3(d, "Arrow", "Point", "Point") :
                          Test(d, "Connects", t)}})

\* variant: build is called before the style is declared
createArrowDiagramBuildsEarly(n) ==
    ArrowStyle(Build(ArrowSubstance(ArrowDomain(NewBuilder(n)))))

createArrowDiagram(n) ==
    Build(ArrowStyle(ArrowSubstance(ArrowDomain(NewBuilder(n)))))

(***************************************************************************)
(* The circle script.                                                      *)
(***************************************************************************)
numSatellites == 6
satelliteRadius == 25
orbitRadius == 150

\* Array.from({ length: n }, () => T()) and satellites.map(() => T())
RECURSIVE NewN(_, _, _)
NewN(d, type, n) == IF n = 0 THEN d ELSE NewN(NewSubstance(d, type), type, n - 1)

CircleDomain(d) ==
    Predicate(Type(Type(Type(d, "CenterCircle"), "SatelliteCircle"), "Connection"),
              "OrbitAround")

\* satellites.forEach((satellite, index) => OrbitAround(connections[index], satellite, center))
RECURSIVE OrbitFacts(_, _, _, _, _)
OrbitFacts(d, connections, satellites, center, index) ==
    IF index > Len(satellites) THEN d
    ELSE OrbitFacts(Fact(d, "OrbitAround",
                         <<connections[index], satellites[index], center>>),
                    connections, satellites, center, index + 1)

CircleSubstance(d) ==
    LET d1          == NewSubstance(d, "CenterCircle")
        center      == Last(d1)
        d2          == NewN(d1, "SatelliteCircle", numSatellites)
        satellites  == [i \in 1..numSatellites |-> Last(d1) + i]
        d3          == NewN(d2, "Connection", Len(satellites))
        connections == [i \in 1..Len(satellites) |-> Last(d2) + i]
    IN  OrbitFacts(d3, connections, satellites, center, 1)

\* the three rules the two versions of the script share
CircleOrbitStyle(d) ==
    LET d1 == ForAll(d, {}, {})
        d2 == ForAll(d1, {}, {})
    IN  ForAllWhere(d2, {},
            {Equal(m[2], m[3], orbitRadius) :
                m \in {t \in Matches3(d, "Connection", "SatelliteCircle", "CenterCircle") :
                          Test(d, "OrbitAround", t)}})

\* forall({ sat1: SatelliteCircle, sat2: SatelliteCircle }, ...)
CircleStyle(d) ==
    ForAll(CircleOrbitStyle(d), {},
           {GreaterThan(m[1], m[2], 2 * satelliteRadius + 30) :
               m \in Matches2(d, "SatelliteCircle", "SatelliteCircle")})

createCircleDiagram(n) ==
    Build(CircleStyle(CircleSubstance(CircleDomain(NewBuilder(n)))))

\* for (i = 0; i < satellites.length; i++) for (j = i + 1; ...) ensure(...)
RECURSIVE PairLoop(_, _, _, _)
PairLoop(d, satellites, i, j) ==
    IF i > Len(satellites) THEN d
    ELSE IF j > Len(satellites) THEN PairLoop(d, satellites, i + 1, i + 2)
    ELSE PairLoop(Ensure(d, GreaterThan(satellites[i], satellites[j],
                                        2 * satelliteRadius + 30)),
                  satellites, i, j + 1)

\* the version of the script that declares everything in one function
createCircleDiagramInline(n) ==
    LET d1         == CircleSubstance(CircleDomain(NewBuilder(n)))
        satellites == [i \in 1..numSatellites |-> 1 + i]
    IN  Build(PairLoop(CircleOrbitStyle(d1), satellites, 1, 2))

(***************************************************************************)
(* The eigen script.                                                       *)
(***************************************************************************)
numTickMarks == 6

EigenDomain(d) ==
    LET d1 == Type(Type(Type(Type(Type(d, "Axis"), "TickMark"), "BasisVector"),
                        "MappedPoint"), "EigenspaceLine")
    IN  Predicate(Predicate(Predicate(d1, "Horizontal"), "Vertical"), "OnAxis")

\* for (i = 0; i < numTickMarks; ++i) { xTick; OnAxis; yTick; OnAxis }
RECURSIVE TickMarks(_, _, _, _)
TickMarks(d, xAxis, yAxis, i) ==
    IF i >= numTickMarks THEN d
    ELSE LET d1 == NewSubstance(d, "TickMark")
             d2 == Fact(d1, "OnAxis", <<Last(d1), xAxis>>)
             d3 == NewSubstance(d2, "TickMark")
             d4 == Fact(d3, "OnAxis", <<Last(d3), yAxis>>)
         IN  TickMarks(d4, xAxis, yAxis, i + 1)

EigenSubstance(d) ==
    LET d1    == NewSubstance(d, "Axis")
        xAxis == Last(d1)
        d2    == Fact(d1, "Horizontal", <<xAxis>>)
        d3    == NewSubstance(d2, "Axis")
        yAxis == Last(d3)
        d4    == Fact(d3, "Vertical", <<yAxis>>)
        d5    == TickMarks(d4, xAxis, yAxis, 0)
        d6    == NewSubstance(NewSubstance(d5, "BasisVector"), "BasisVector")
        d7    == NewSubstance(d6, "MappedPoint")
    IN  NewSubstance(NewSubstance(d7, "EigenspaceLine"), "EigenspaceLine")

\* obj.attr = value, and an expression that uses obj.attr
Wr(obj, attr) == [op |-> "write", obj |-> obj, attr |-> attr]
Rd(obj, attr) == [op |-> "read", obj |-> obj, attr |-> attr]

\* the script (or a rule body it runs) touches attributes, in this order
Attrs(d, events) == [d EXCEPT !.attrs = @ \o events]

\* the instances of a set in the order of their creation
Sorted(S) ==
    [k \in 1..Cardinality(S) |-> CHOOSE x \in S : Cardinality({y \in S : y < x}) = k - 1]

\* the events of the runs of a rule body, one run after the other
RECURSIVE Flatten(_)
Flatten(runs_) == IF runs_ = <<>> THEN <<>> ELSE Head(runs_) \o Flatten(Tail(runs_))

Ihat(d) == Sorted(InstancesOf(d, "BasisVector"))[1]
Jhat(d) == Sorted(InstancesOf(d, "BasisVector"))[2]

\* the Axis rule and the two TickMark rules
AxisRules(d) ==
    LET AxisBody(a) == << Wr(a, "icon") >>
        TickBody(t) == << Wr(t, "icon"), Wr(t, "text") >>
        axes  == Sorted(InstancesOf(d, "Axis"))
        ticks(pred) ==
            Sorted({t \in InstancesOf(d, "TickMark") :
                      \E a \in InstancesOf(d, "Axis") :
                          Test(d, "OnAxis", <<t, a>>) /\ Test(d, pred, <<a>>)})
        d1 == ForAll(Attrs(d, Flatten([k \in 1..Len(axes) |-> AxisBody(axes[k])])), {}, {})
        xs == ticks("Horizontal")
        ys == ticks("Vertical")
        d2 == ForAllWhere(Attrs(d1, Flatten([k \in 1..Len(xs) |-> TickBody(xs[k])])), {}, {})
    IN  ForAllWhere(Attrs(d2, Flatten([k \in 1..Len(ys) |-> TickBody(ys[k])])), {}, {})

\* substance.ihat.label = ..; .canvasVec = ..; .color = ..; the same for
\* jhat; substance.p.canvasV1 = ..
BasisVectorSetup(d) ==
    LET p == Sorted(InstancesOf(d, "MappedPoint"))[1]
    IN  Attrs(d, << Wr(Ihat(d), "label"), Wr(Ihat(d), "canvasVec"), Wr(Ihat(d), "color"),
                    Wr(Jhat(d), "label"), Wr(Jhat(d), "canvasVec"), Wr(Jhat(d), "color"),
                    Wr(p, "canvasV1") >>)

\* forall({ v: BasisVector }, ..)
BasisVectorRule(d) ==
    LET Body(v) ==
            << Rd(v, "canvasVec"), Wr(v, "vec"),
               Rd(v, "canvasVec"), Rd(v, "color"), Wr(v, "arrow"),
               Rd(v, "canvasVec"), Wr(v, "handle"),
               Rd(v, "label"), Rd(v, "color"), Wr(v, "text"),
               Rd(v, "text"), Rd(v, "arrow"), Rd(v, "handle"), Rd(v, "text"),
               Rd(v, "vec"), Rd(v, "vec") >>
        vs == Sorted(InstancesOf(d, "BasisVector"))
    IN  ForAll(Attrs(d, Flatten([k \in 1..Len(vs) |-> Body(vs[k])])), {}, {})

\* forall({ p: MappedPoint }, ..)
MappedPointRule(d) ==
    LET Body(p) ==
            << Rd(p, "canvasV1"), Wr(p, "v1"),
               Rd(Ihat(d), "vec"), Rd(Jhat(d), "vec"), Rd(p, "v1"), Wr(p, "v2"),
               Rd(p, "v2"), Wr(p, "canvasV2"), Wr(p, "color"),
               Rd(p, "color"), Rd(p, "canvasV1"), Wr(p, "icon1"),
               Rd(p, "color"), Wr(p, "text1"),
               Rd(p, "color"), Rd(p, "canvasV2"), Wr(p, "icon2"),
               Rd(p, "color"), Wr(p, "text2"),
               Rd(p, "canvasV1"), Rd(p, "canvasV2"), Wr(p, "line"),
               Rd(p, "canvasV1"), Wr(p, "handle"),
               Rd(p, "text1"), Rd(p, "icon1"), Rd(p, "icon2"), Rd(p, "text2"),
               Rd(p, "line"), Rd(p, "handle"), Rd(p, "canvasV2") >>
        ps == Sorted(InstancesOf(d, "MappedPoint"))
    IN  ForAll(Attrs(d, Flatten([k \in 1..Len(ps) |-> Body(ps[k])])), {}, {})

\* const [a, c] = substance.ihat.vec; const [b, d] = substance.jhat.vec;
\* substance.el1.vec = ..; substance.el2.vec = ..
EigenLines(d) ==
    LET el == Sorted(InstancesOf(d, "EigenspaceLine"))
    IN  Attrs(d, << Rd(Ihat(d), "vec"), Rd(Jhat(d), "vec"),
                    Wr(el[1], "vec"), Wr(el[2], "vec") >>)

\* forall({ e: EigenspaceLine }, ..) and forall({ e: EigenspaceLine, a: Axis }, ..)
EigenspaceLineRules(d) ==
    LET Body(e) ==
            << Rd(e, "vec"), Wr(e, "icon"), Rd(e, "vec"), Wr(e, "text"),
               Rd(e, "vec"), Wr(e, "textBackground"),
               Rd(e, "icon"), Rd(e, "textBackground"), Rd(e, "text") >>
        Layer(m) == << Rd(m[1], "textBackground"), Rd(m[2], "icon") >>
        lines == Sorted(InstancesOf(d, "EigenspaceLine"))
        axes  == Sorted(InstancesOf(d, "Axis"))
        pairs == << <<lines[1], axes[1]>>, <<lines[1], axes[2]>>,
                    <<lines[2], axes[1]>>, <<lines[2], axes[2]>> >>
        d1 == ForAll(Attrs(d, Flatten([k \in 1..Len(lines) |-> Body(lines[k])])), {}, {})
    IN  ForAll(Attrs(d1, Flatten([k \in 1..Len(pairs) |-> Layer(pairs[k])])), {}, {})

\* variant: the eigen-line expressions stand before the BasisVector rule
EigenRulesLinesFirst(d) ==
    EigenspaceLineRules(MappedPointRule(BasisVectorRule(
        EigenLines(BasisVectorSetup(AxisRules(d))))))

\* applyStyle: the assignments and rules in the order of the source; a rule
\* body runs for every match when the rule is declared
EigenRules(d) ==
    EigenspaceLineRules(EigenLines(MappedPointRule(BasisVectorRule(
        BasisVectorSetup(AxisRules(d))))))

createEigenDiagram(n) ==
    Build(EigenRules(EigenSubstance(EigenDomain(NewBuilder(n)))))

(***************************************************************************)
(* The geometry script.                                                    *)
(***************************************************************************)
LabelFontSize == 12
DefaultFontSize == 12

GeometryDomain(d) ==
    LET d1 == Predicate(Type(Type(d, "Point"), "Edge"), "Connects")
        d2 == Predicate(Type(d1, "Circle"), "DrawCircleWithRadius")
        d3 == Predicate(d2, "DrawCircumcircle")
    IN  Predicate(Predicate(Predicate(d3, "Perpendicular"), "On"), "LabelPredicate")

\* variant: the helper asserts Connects of the edge twice
SegmentTwice(d, pointA, pointB) ==
    LET d1 == NewSubstance(d, "Edge")
    IN  Fact(Fact(d1, "Connects", <<Last(d1), pointA, pointB>>),
             "Connects", <<Last(d1), pointB, pointA>>)

\* const edge = Edge(); Connects(edge, pointA, pointB); return edge
Segment(d, pointA, pointB) ==
    LET d1 == NewSubstance(d, "Edge")
    IN  Fact(d1, "Connects", <<Last(d1), pointA, pointB>>)

CircleRadius(d, center, radius) ==
    LET d1 == NewSubstance(d, "Circle")
    IN  Fact(d1, "DrawCircleWithRadius", <<Last(d1), center, radius>>)

Circumcircle(d, pointA, pointB, pointC) ==
    LET d1 == NewSubstance(d, "Circle")
    IN  Fact(d1, "DrawCircumcircle", <<Last(d1), pointA, pointB, pointC>>)

\* obj.label = label; LabelPredicate(obj)
Label(d, obj, label) == Fact(SetLabel(d, obj, label), "LabelPredicate", <<obj>>)

\* On(point, shape)
On(d, point, shape) == Fact(d, "On", <<point, shape>>)

Perpendicular(d, s1, s2) == Fact(d, "Perpendicular", <<s1, s2>>)

\* variant: the orthocentre is put on one altitude only
OnFactsSingle(d, pD, pE, pF, pG, eAB, eBC, eAC, eAD, eBE, eCF) ==
    On(On(On(On(d, pD, eBC), pE, eAC), pF, eAB), pG, eAD)

\* On(D, BC); On(E, AC); On(F, AB); On(G, AD); On(G, BE); On(G, CF)
OnFacts(d, pD, pE, pF, pG, eAB, eBC, eAC, eAD, eBE, eCF) ==
    On(On(On(On(On(On(d, pD, eBC), pE, eAC), pF, eAB), pG, eAD), pG, eBE), pG, eCF)

GeometrySubstance(d) ==
    LET dA  == NewSubstance(d, "Point")
        pA  == Last(dA)
        dB  == NewSubstance(dA, "Point")
        pB  == Last(dB)
        dC  == NewSubstance(dB, "Point")
        pC  == Last(dC)
        dD  == NewSubstance(dC, "Point")
        pD  == Last(dD)
        dE  == NewSubstance(dD, "Point")
        pE  == Last(dE)
        dF  == NewSubstance(dE, "Point")
        pF  == Last(dF)
        dG  == NewSubstance(dF, "Point")
        pG  == Last(dG)
        d1  == Circumcircle(CircleRadius(dG, pG, pF), pA, pB, pC)
        dAB == Segment(d1, pA, pB)
        eAB == Last(dAB)
        dBC == Segment(dAB, pB, pC)
        eBC == Last(dBC)
        dAC == Segment(dBC, pA, pC)
        eAC == Last(dAC)
        d2  == Label(Label(Label(dAC, eAB, "a"), eBC, "b"), eAC, "c")
        dGF == Segment(d2, pG, pF)
        eGF == Last(dGF)
        d3  == Label(dGF, eGF, "r")
        dAD == Segment(d3, pA, pD)
        eAD == Last(dAD)
        d4  == Perpendicular(dAD, eBC, eAD)
        dBE == Segment(d4, pB, pE)
        eBE == Last(dBE)
        d5  == Perpendicular(dBE, eAC, eBE)
        dCF == Segment(d5, pC, pF)
        eCF == Last(dCF)
        d6  == Perpendicular(dCF, eAB, eCF)
        d7  == OnFacts(d6, pD, pE, pF, pG, eAB, eBC, eAC, eAD, eBE, eCF)
        d8  == SetLabel(SetLabel(SetLabel(SetLabel(d7, pA, "A"), pB, "B"), pC, "C"),
                        pD, "D")
    IN  SetLabel(SetLabel(SetLabel(d8, pE, "E"), pF, "F"), pG, "G")

\* equation({ string, fontSize }) assigned to obj.text
Text(obj, string, size) == [obj |-> obj, string |-> string, fontSize |-> size]

\* fontSize: "12px" in both label rules, whatever is handed to the style
LabelSize(fontSize) == LabelFontSize

\* the constraint of the On rule: p lies on the line of s, between its ends
OnEdge(p, s) == [kind |-> "on", a |-> p, b |-> s, bound |-> 0]

\* the constraint of the Perpendicular rule
PerpendicularEdges(s1, s2) == [kind |-> "perpendicular", a |-> s1, b |-> s2, bound |-> 0]

\* applyStyle(db, domain, fontSize): the function declares two parameters
GeometryStyle(d, fontSize) ==
    LET d1 == ForAll(d, {}, {})
        d2 == ForAllWhere(ForAllWhere(ForAllWhere(d1, {}, {}), {}, {}), {}, {})
        d3 == ForAllWhere(d2, {},
                  {OnEdge(m[2], m[1]) :
                      m \in {t \in Matches2(d, "Edge", "Point") :
                                Test(d, "On", <<t[2], t[1]>>)}})
        d4 == ForAllWhere(d3, {},
                  {PerpendicularEdges(m[1], m[2]) :
                      m \in {t \in Matches2(d, "Edge", "Edge") :
                                Test(d, "Perpendicular", t)}})
        d5 == ForAllWhere(d4,
                  {Text(m[1], LabelOr(d, m[1], "d"), LabelSize(fontSize)) :
                      m \in {t \in Matches1(d, "Edge") : Test(d, "LabelPredicate", t)}},
                  {})
    IN  ForAll(d5,
               {Text(m[1], LabelOr(d, m[1], "Unnamed"), LabelSize(fontSize)) :
                   m \in Matches1(d, "Point")},
               {})

\* fontSize: number = 12
DefaultParam(args) == IF Len(args) = 0 THEN DefaultFontSize ELSE args[1]

createGeometryDiagram(n, args) ==
    Build(GeometryStyle(GeometrySubstance(GeometryDomain(NewBuilder(n))),
                        DefaultParam(args)))

(***************************************************************************)
(* The engine's answer to build: a rejection, or a diagram whose layout    *)
(* places the centre of every circle icon.  The layouts considered put the *)
(* first such instance on the origin and the others around it, at a        *)
(* distance of 5 * scale, with at most one of them moved onto another.     *)
(***************************************************************************)
Slots == << <<5, 0>>, <<4, 3>>, <<0, 5>>, <<0 - 4, 3>>, <<0 - 5, 0>>, <<0, 0 - 5>> >>

\* the types whose rule assigns icon = circle({ ..., drag: true })
IconTypes == {"Point", "CenterCircle", "SatelliteCircle"}

Movable(d) == {i \in 1..Len(d.insts) : d.insts[i] \in IconTypes}

Rank(d, i) == Cardinality({j \in Movable(d) : j <= i})

BasePos(d, scale, i) ==
    IF Rank(d, i) = 1 THEN <<0, 0>>
    ELSE <<scale * Slots[Rank(d, i) - 1][1], scale * Slots[Rank(d, i) - 1][2]>>

Moves(d) == {<<0, 0>>} \cup {mv \in Movable(d) \X Movable(d) : mv[1] # mv[2]}

LayoutOf(d, scale, k, m) ==
    [i \in Movable(d) |-> IF i = k THEN BasePos(d, scale, m) ELSE BasePos(d, scale, i)]

NoLayout == [i \in {} |-> <<0, 0>>]

\* the square of vdist(a.icon.center, b.icon.center)
Dist2(lay, a, b) ==
    (lay[a][1] - lay[b][1]) * (lay[a][1] - lay[b][1])
        + (lay[a][2] - lay[b][2]) * (lay[a][2] - lay[b][2])

\* the points p, q of the fact Connects(s, p, q): s.icon runs from p to q
EdgeEnds(d, s) ==
    LET i == CHOOSE j \in 1..Len(d.facts) :
                 d.facts[j].pred = "Connects" /\ d.facts[j].args[1] = s
    IN  <<d.facts[i].args[2], d.facts[i].args[3]>>

Dot(u, v) == u[1] * v[1] + u[2] * v[2]

Cross(u, v) == u[1] * v[2] - u[2] * v[1]

VSub(u, v) == <<u[1] - v[1], u[2] - v[2]>>

\* whether the layout satisfies a declared constraint (distances are compared
\* by their squares)
Holds(d, lay, c) ==
    IF c.kind = "greaterThan" THEN Dist2(lay, c.a, c.b) > c.bound * c.bound
    ELSE IF c.kind = "equal" THEN Dist2(lay, c.a, c.b) = c.bound * c.bound
    ELSE IF c.kind = "on"
         THEN LET v1 == VSub(lay[c.a], lay[EdgeEnds(d, c.b)[1]])
                  v2 == VSub(lay[EdgeEnds(d, c.b)[2]], lay[c.a])
              IN  Cross(v1, v2) = 0 /\ Dot(v1, v2) > 0
    ELSE LET v1 == VSub(lay[EdgeEnds(d, c.a)[1]], lay[EdgeEnds(d, c.a)[2]])
             v2 == VSub(lay[EdgeEnds(d, c.b)[1]], lay[EdgeEnds(d, c.b)[2]])
         IN  Dot(v1, v1) > 0 /\ Dot(v2, v2) > 0 /\ Dot(v1, v2) = 0

Satisfies(d, lay) == \A c \in d.cons : Holds(d, lay, c)

(***************************************************************************)
(* Actions of a build function.                                            *)
(***************************************************************************)
BuildFunctions ==
    {"createArrowDiagram", "createCircleDiagram", "createCircleDiagramInline",
     "createEigenDiagram", "createGeometryDiagram"}

FontSizes == {10, 12, 16}

\* the argument lists a build function is called with
ArgLists(fn) ==
    IF fn = "createGeometryDiagram" THEN {<<>>} \cup {<<f>> : f \in FontSizes}
    ELSE {<<>>}

\* the synchronous part of the build function, up to its await
RunBuildFn(fn, args, n) ==
    IF fn = "createArrowDiagram" THEN createArrowDiagram(n)
    ELSE IF fn = "createCircleDiagram" THEN createCircleDiagram(n)
    ELSE IF fn = "createCircleDiagramInline" THEN createCircleDiagramInline(n)
    ELSE IF fn = "createEigenDiagram" THEN createEigenDiagram(n)
    ELSE createGeometryDiagram(n, args)

NoCall == [fn |-> "none", args |-> <<>>, status |-> "idle"]

\* no builder exists yet
NoBuilder == [NewBuilder(0) EXCEPT !.log = <<>>]

IdleBld ==
    /\ call = NoCall
    /\ db = NoBuilder
    /\ nBuilders = 0
    /\ layout = NoLayout
    /\ segments = <<>>

\* a build function is called: it runs up to the await of db.build()
CallBuildFn(fn, args) ==
    /\ nBuilders < MaxCalls
    /\ nBuilders' = nBuilders + 1
    /\ db' = RunBuildFn(fn, args, nBuilders + 1)
    /\ call' = [fn |-> fn, args |-> args, status |-> db'.promise]
    /\ layout' = NoLayout
    /\ UNCHANGED segments
    /\ UNCHANGED notBld

\* the engine resolves the build with a diagram
EngineResolves(scale, mv) ==
    /\ db.promise = "pending"
    /\ mv \in Moves(db)
    /\ db' = [db EXCEPT !.promise = "fulfilled"]
    /\ call' = [call EXCEPT !.status = ReturnAwait("fulfilled")]
    /\ layout' = LayoutOf(db, scale, mv[1], mv[2])
    /\ UNCHANGED <<nBuilders, segments>>
    /\ UNCHANGED notBld

\* the engine rejects the build
EngineRejects ==
    /\ db.promise = "pending"
    /\ db' = [db EXCEPT !.promise = "rejected"]
    /\ call' = [call EXCEPT !.status = ReturnAwait("rejected")]
    /\ UNCHANGED <<nBuilders, layout, segments>>
    /\ UNCHANGED notBld

NextScript ==
    \/ \E fn \in BuildFunctions : \E args \in ArgLists(fn) : CallBuildFn(fn, args)
    \/ \E k \in 0..MaxScale : \E mv \in Moves(db) : EngineResolves(10 * k, mv)
    \/ EngineRejects

(***************************************************************************)
(* The helpers of the geometry domain, called in any order.                *)
(***************************************************************************)
\* defineDomain has run on a new builder
InitBld ==
    /\ call = NoCall
    /\ db = GeometryDomain(NewBuilder(1))
    /\ nBuilders = 1
    /\ layout = NoLayout
    /\ segments = <<>>

\* Point()
NewPoint ==
    /\ Cardinality(InstancesOf(db, "Point")) < MaxPoints
    /\ db' = NewSubstance(db, "Point")
    /\ UNCHANGED <<call, nBuilders, layout, segments>>
    /\ UNCHANGED notBld

\* Segment(pointA, pointB); segments keeps what was passed and what was returned
SegmentCall(pointA, pointB) ==
    /\ Len(segments) < MaxSegments
    /\ {pointA, pointB} \subseteq InstancesOf(db, "Point")
    /\ db' = Segment(db, pointA, pointB)
    /\ segments' = Append(segments, <<Last(db'), pointA, pointB>>)
    /\ UNCHANGED <<call, nBuilders, layout>>
    /\ UNCHANGED notBld

NextDomain ==
    \/ NewPoint
    \/ \E pointA, pointB \in 1..(MaxPoints + MaxSegments) : SegmentCall(pointA, pointB)

(***************************************************************************)
(* Specifications.                                                         *)
(***************************************************************************)
\* the gallery on screen
Init == InitUI /\ IdleCirc /\ IdleEig /\ IdleBld /\ IdleCopy

Spec == Init /\ [][NextUI]_vars

\* the circumcircle rule under evaluation
InitCircum == InitUI /\ InitCirc /\ IdleEig /\ IdleBld /\ IdleCopy

SpecCircum == InitCircum /\ [][NextCirc]_vars

\* the eigen style under evaluation
InitEigen == InitUI /\ IdleCirc /\ InitEig /\ IdleBld /\ IdleCopy

SpecEigen == InitEigen /\ [][NextEig]_vars

\* the gallery on screen, with React's scheduler: a render that a state update
\* has requested is eventually committed
SpecLive == Init /\ [][NextUI]_vars /\ WF_vars(\E ok \in BOOLEAN : Commit(ok))

\* the On rule under evaluation
InitOnRule == InitUI /\ InitOn /\ IdleEig /\ IdleBld /\ IdleCopy

SpecOn == InitOnRule /\ [][NextOn]_vars

\* the renderer with a diagram, and its copy button
InitCopy == (\E ok \in BOOLEAN : ShownUI(ok)) /\ IdleCirc /\ IdleEig /\ IdleBld /\ IdleCopy

SpecCopy == InitCopy /\ [][NextCopy]_vars

\* with the event loop: time passes, and a timer that is due fires
SpecCopyLive ==
    /\ InitCopy /\ [][NextCopy]_vars
    /\ WF_vars(Tick) /\ WF_vars(\E i \in 1..MaxCopies : TimerFires(i))

\* the build functions called one after the other
InitScript == InitUI /\ IdleCirc /\ IdleEig /\ IdleBld /\ IdleCopy

SpecScript == InitScript /\ [][NextScript]_vars

\* the helpers of the geometry domain called on one builder
InitDomain == InitUI /\ IdleCirc /\ IdleEig /\ InitBld /\ IdleCopy

SpecDomain == InitDomain /\ [][NextDomain]_vars

(***************************************************************************)
(* Properties of the UI shell.                                             *)
(***************************************************************************)
Settled(r) == runs[r].status \in {"resolved", "rejected"}

\* C1: once a later effect run has started, the outcome of an earlier run is
\* never written: the state is null or the diagram resolved by the most recent
\* run, and the settling of an older run writes nothing.
C1_NoStaleResult ==
    /\ [](phase = "mounted" =>
            /\ diagram \in {NULL, Cur}
            /\ (diagram = Cur => runs[Cur].status = "resolved"))
    /\ [][\A r \in 1..Len(runs) :
            (r < Cur /\ runs[r].status = "pending" /\ runs'[r].status # "pending")
                => (nWrites' = nWrites /\ diagram' = diagram)]_vars

C1_Witness ==
    /\ phase = "mounted"
    /\ diagram = Cur
    /\ \E r \in 1..Len(runs) :
          r < Cur /\ runs[r].fn # runs[Cur].fn /\ Settled(r) /\ ~runs[r].applied

\* C2: after the unmount (the cleanup has run) no settling build calls
\* setDiagram: the number of writes and the state no longer change.
C2_NoWriteAfterUnmount ==
    [][phase = "unmounted" => (nWrites' = nWrites /\ diagram' = diagram)]_vars

C2_Witness ==
    /\ phase = "unmounted"
    /\ \E r \in 1..Len(runs) : r = Cur /\ Settled(r) /\ ~runs[r].applied

\* C3: the state starts null, every effect run resets it to null before the
\* build is started, and it stays null while the build of that run is pending.
C3_NullWhileBuilding ==
    /\ [](/\ (phase = "init" => diagram = NULL)
          /\ (phase = "mounted" /\ runs[Cur].status = "pending" => diagram = NULL))
    /\ [][Len(runs') > Len(runs) => diagram' = NULL]_vars

C3_Witness ==
    /\ phase = "mounted"
    /\ runs[Cur].status = "pending"
    /\ diagram = NULL
    /\ \E r \in 1..Len(runs) :
          r < Cur /\ runs[r].status = "resolved" /\ runs[r].applied

\* C4: a rejected build is caught in the hook, leaves the state null, is not
\* started again, and the gallery shows its loading text.
C4_RejectedBuild ==
    \A r \in 1..Len(runs) :
        runs[r].status = "rejected" =>
            /\ ~uncaught
            /\ runs[r].calls = 1
            /\ (r = Cur /\ phase = "mounted" =>
                    diagram = NULL /\ ShowsLoading(propDiagram))

C4_Witness ==
    /\ phase = "mounted"
    /\ runs[Cur].status = "rejected"
    /\ \E r \in 1..Len(runs) :
          r < Cur /\ runs[r].status = "resolved" /\ runs[r].applied

\* C5: a change of the build function or the unmount leaves every build in
\* flight running (only the flag of its run is set), builds are only ever
\* pending or settled, and so several builds can be in flight together.
C5_NoAbort ==
    /\ [](\A r \in 1..Len(runs) :
              runs[r].status \in {"pending", "resolved", "rejected"})
    /\ [][\A r \in 1..Len(runs) :
            (runs[r].status = "pending" /\ (buildFn' # buildFn \/ phase' # phase))
                => runs'[r].status = "pending"]_vars

C5_Witness ==
    \E r1, r2 \in 1..Len(runs) :
        /\ r1 < r2
        /\ runs[r1].status = "pending" /\ runs[r1].cancelled
        /\ runs[r2].status = "pending"
        /\ runs[r1].fn # runs[r2].fn

\* C10: the container never holds more than one element, and when the mount
\* of the current diagram did not throw it holds exactly that diagram's element.
C10_SingleElement ==
    /\ Len(container) <= 1
    /\ (propDiagram # NULL /\ ~mountThrew => container = <<propDiagram>>)

C10_Witness ==
    /\ propDiagram # NULL
    /\ container = <<propDiagram>>
    /\ \E r \in 1..Len(runs) :
          r < propDiagram /\ runs[r].status = "resolved" /\ runs[r].applied

\* C11: a throwing mount is caught in the render effect: nothing propagates,
\* the hook's state and its builds are untouched, the emptied container stays
\* empty (the old element is not restored) and the mount is not tried again
\* while the diagram prop stays the same.
C11_MountThrowCaught ==
    /\ [](mountThrew => (container = <<>> /\ ~uncaught))
    /\ [][(mountThrew' /\ propDiagram' # NULL /\ propDiagram' # propDiagram) =>
            /\ container' = <<>>
            /\ diagram' = diagram /\ runs' = runs /\ nWrites' = nWrites
            /\ uncaught' = uncaught]_vars
    /\ [][(mountThrew /\ propDiagram' = propDiagram) =>
            (container' = container /\ mountThrew')]_vars

C11_Witness ==
    /\ mountThrew
    /\ propDiagram # NULL
    /\ container = <<>>
    /\ diagram = propDiagram
    /\ \E r \in 1..Len(runs) :
          r < propDiagram /\ runs[r].status = "resolved" /\ runs[r].applied

(***************************************************************************)
(* Properties of the circumcircle rule.                                    *)
(***************************************************************************)
\* the cross product (q - p) x (r - p) vanishes
Collinear(p, q, r) ==
    Sign(NumSub(NumMul(NumSub(q[1], p[1]), NumSub(r[2], p[2])),
                NumMul(NumSub(q[2], p[2]), NumSub(r[1], p[1])))) = 0

PtsD == CircumD(pts["p"][1], pts["p"][2], pts["q"][1], pts["q"][2],
                pts["r"][1], pts["r"][2])

\* C6: for three non-collinear points the computed centre is finite and
\* equidistant from p, q and r, and the radius of the circle is that distance.
C6_Equidistant ==
    (Drawn(circle) /\ ~Collinear(pts["p"], pts["q"], pts["r"])) =>
        /\ IsFinite(circle.center[1]) /\ IsFinite(circle.center[2])
        /\ VDist(circle.center, pts["p"]) = VDist(circle.center, pts["q"])
        /\ VDist(circle.center, pts["p"]) = VDist(circle.center, pts["r"])
        /\ circle.r = VDist(circle.center, pts["q"])
        /\ IsFinite(circle.r)

C6_Witness ==
    /\ Drawn(circle)
    /\ ~Collinear(pts["p"], pts["q"], pts["r"])
    /\ IsFinite(circle.center[1]) /\ circle.center[1].d > 1
    /\ IsFinite(circle.r) /\ circle.r.q # 0
    /\ circle.r = VDist(circle.center, pts["r"])

\* C9: D is zero exactly for collinear (or coincident) points, and then the
\* unguarded division leaves no finite coordinate in the centre.
C9_CollinearNonFinite ==
    Drawn(circle) =>
        /\ (Sign(PtsD) = 0 <=> Collinear(pts["p"], pts["q"], pts["r"]))
        /\ (Collinear(pts["p"], pts["q"], pts["r"]) =>
                ~IsFinite(circle.center[1]) /\ ~IsFinite(circle.center[2]))

C9_Witness ==
    /\ Drawn(circle)
    /\ Collinear(pts["p"], pts["q"], pts["r"])
    /\ pts["p"] # pts["q"] /\ pts["q"] # pts["r"] /\ pts["p"] # pts["r"]
    /\ circle.center[1].k = "inf"
    /\ ~IsFinite(circle.center[2])

(***************************************************************************)
(* Properties of the eigen lines.                                          *)
(***************************************************************************)
\* the entries of the map: (a, c) is ihat.vec and (b, d) is jhat.vec
Ea == eigen.ihat[1]
Ec == eigen.ihat[2]
Eb == eigen.jhat[1]
Ed == eigen.jhat[2]

\* (a - d)^2 + 4bc
Discriminant ==
    NumAdd(NumMul(NumSub(Ea, Ed), NumSub(Ea, Ed)), NumMul(Num(4), NumMul(Eb, Ec)))

\* the 2D cross product of the image of el under the map with el itself
\* (numerator; both vectors carry the same positive factor 1 / sqrt(el.n2))
CrossWithImage(el) ==
    LET img == MapOf(eigen.ihat, eigen.jhat, <<el.x, el.y>>)
    IN  NumSub(NumMul(img[1], el.y), NumMul(img[2], el.x))

EigenDrawn == "el1" \in DOMAIN eigen

\* C7: with real distinct eigenvalues and c # 0 both directions are finite,
\* nonzero, and parallel to their images under the map.
C7_EigenDirections ==
    (EigenDrawn /\ Sign(Ec) # 0 /\ Sign(Discriminant) > 0) =>
        /\ IsFinite(eigen.el1.x) /\ IsFinite(eigen.el2.x)
        /\ Sign(eigen.el1.n2) > 0 /\ Sign(eigen.el2.n2) > 0
        /\ IsFinite(CrossWithImage(eigen.el1)) /\ Sign(CrossWithImage(eigen.el1)) = 0
        /\ IsFinite(CrossWithImage(eigen.el2)) /\ Sign(CrossWithImage(eigen.el2)) = 0

C7_Witness ==
    /\ EigenDrawn
    /\ canvasVec # InitCanvasVec
    /\ Sign(Ec) # 0 /\ Sign(Discriminant) > 0
    /\ eigen.el1.x.q # 0
    /\ Sign(Eb) # 0 /\ Ea # Ed
    /\ Sign(CrossWithImage(eigen.el1)) = 0

\* the first component (sa * (a - d) + ss * sqrt((a - d)^2 + 4bc)) / (2c)
FirstComponent(sa, ss) ==
    NumDiv(NumAdd(NumMul(Num(sa), NumSub(Ea, Ed)), NumMul(Num(ss), NumSqrt(Discriminant))),
           NumMul(Num(2), Ec))

\* C8 as stated: the first components are (d - a + sqrt(..)) / (2c) for el1 and
\* (d - a - sqrt(..)) / (2c) for el2, the second components 1.
C8_AsStated ==
    (EigenDrawn /\ Sign(Ec) # 0) =>
        /\ eigen.el1.y = Num(1) /\ eigen.el2.y = Num(1)
        /\ eigen.el1.x = FirstComponent(-1, 1)
        /\ eigen.el2.x = FirstComponent(-1, -1)

\* C8 amended: the first components are (a - d - sqrt(..)) / (2c) for el1 and
\* (a - d + sqrt(..)) / (2c) for el2, the second components 1.
C8_Negated ==
    (EigenDrawn /\ Sign(Ec) # 0) =>
        /\ eigen.el1.y = Num(1) /\ eigen.el2.y = Num(1)
        /\ eigen.el1.x = FirstComponent(1, -1)
        /\ eigen.el2.x = FirstComponent(1, 1)

C8_Witness ==
    /\ EigenDrawn
    /\ canvasVec # InitCanvasVec
    /\ Sign(Ec) # 0
    /\ eigen.el1.x.q # 0
    /\ Ea # Ed
    /\ eigen.el1.x = FirstComponent(1, -1)
    /\ eigen.el1.x # FirstComponent(-1, 1)

(***************************************************************************)
(* Properties of the gallery.                                              *)
(***************************************************************************)
\* the entries of the script table with the selected identifier
SelectedEntries == {i \in 1..Len(diagrams) : diagrams[i].id = selectedDiagram}

\* C17: the selected identifier matches exactly one entry of the script
\* table, the lookup is never undefined, the callback calls the build function
\* of that entry, and the current effect run was started for that callback.
C17_SelectionInTable ==
    /\ Cardinality(SelectedEntries) = 1
    /\ Find(selectedDiagram) \in {diagrams[i] : i \in 1..Len(diagrams)}
    /\ \A i \in SelectedEntries : buildFn.calls = diagrams[i].buildFunction
    /\ (phase = "mounted" => runs[Cur].fn = buildFn)

C17_Witness ==
    /\ phase = "mounted"
    /\ selectedDiagram = "arrow"
    /\ Len(runs) = 3
    /\ runs[Cur].fn.calls = "createArrowDiagram"
    /\ runs[1].fn.calls = "createGeometryDiagram"
    /\ runs[2].fn.calls # "createGeometryDiagram"

\* C19: if from some point on the gallery stays mounted with run r as its
\* last effect run, and the build of run r resolves, then from some point on
\* the hook's state, and the diagram the gallery renders, is the diagram of r.
C19_EventuallyShown ==
    \A r \in 1..MaxRuns :
        (/\ <>[](phase = "mounted" /\ Len(runs) = r)
         /\ <>(Len(runs) >= r /\ runs[r].status = "resolved"))
            => <>[](diagram = r /\ propDiagram = r)

C19_Witness ==
    /\ phase = "mounted"
    /\ Len(runs) = MaxRuns
    /\ runs[Cur].status = "resolved"
    /\ diagram = Cur
    /\ propDiagram = Cur
    /\ runs[1].status = "pending"

\* C20: a click on the selected tab changes nothing: the callback, the runs,
\* the state and the displayed diagram stay; a click on another tab selects
\* it and starts exactly one build, of the script selected; and after the
\* mount nothing else starts a build.
C20_BuildOnSelectionChange ==
    /\ [][(clicks' # clicks /\ selectedDiagram' = selectedDiagram) =>
            /\ buildFn' = buildFn /\ runs' = runs
            /\ diagram' = diagram /\ nWrites' = nWrites
            /\ propDiagram' = propDiagram /\ container' = container]_vars
    /\ [][(clicks' # clicks /\ selectedDiagram' # selectedDiagram) =>
            /\ buildFn'.ident # buildFn.ident
            /\ Len(runs') = Len(runs) + 1
            /\ runs'[Len(runs')] = NewRun(buildFn')
            /\ \A i \in 1..Len(diagrams) :
                  diagrams[i].id = selectedDiagram' =>
                      buildFn'.calls = diagrams[i].buildFunction
            /\ \A r \in 1..Len(runs) : runs'[r].status = runs[r].status]_vars
    /\ [][(phase = "mounted" /\ Len(runs') # Len(runs)) =>
            (clicks' # clicks /\ selectedDiagram' # selectedDiagram)]_vars

C20_Witness ==
    /\ phase = "mounted"
    /\ clicks = 1
    /\ selectedDiagram = "geometry"
    /\ Len(runs) = 1
    /\ diagram = 1
    /\ propDiagram = 1
    /\ container = <<1>>

(***************************************************************************)
(* Properties of the diagram scripts.                                      *)
(***************************************************************************)
\* the part of the protocol an engine call belongs to
PhaseOf(entry) ==
    IF entry = "new" THEN 0
    ELSE IF entry \in {"type", "predicate"} THEN 1
    ELSE IF entry \in {"instance", "fact"} THEN 2
    ELSE IF entry \in {"forall", "forallWhere", "ensure"} THEN 3
    ELSE 4

ProtocolOrder(log) ==
    /\ Len(log) >= 5
    /\ log[1] = "new"
    /\ \A i, j \in 1..Len(log) : i < j => PhaseOf(log[i]) <= PhaseOf(log[j])
    /\ \A ph \in 1..3 : \E i \in 1..Len(log) : PhaseOf(log[i]) = ph
    /\ log[Len(log)] = "build"
    /\ Cardinality({i \in 1..Len(log) : log[i] = "build"}) = 1

\* C12: every call of a build function makes a new builder, declares the
\* schema, then the instances, then the style, and calls build exactly once,
\* as its last step; a rejected build rejects the promise of the call.
C12_ScriptProtocol ==
    /\ [](call.status # "idle" =>
            /\ db.id = nBuilders
            /\ ProtocolOrder(db.log)
            /\ db.builds = 1
            /\ (db.promise = "pending" => call.status = "pending")
            /\ (db.promise = "rejected" => call.status = "rejected"))
    /\ [][db'.id # db.id => (nBuilders' = nBuilders + 1 /\ db'.id = nBuilders')]_vars

C12_Witness ==
    /\ nBuilders = 2
    /\ call.fn = "createEigenDiagram"
    /\ db.promise = "rejected"
    /\ call.status = "rejected"
    /\ Len(db.log) > 20

FactsOf(pred) == {i \in 1..Len(db.facts) : db.facts[i].pred = pred}

\* C13: the arrow script declares one constraint, for the points p1, p2 of
\* its Connects fact: their distance is greater than 100; a layout that
\* satisfies what was declared has them more than 100 apart.
C13_ArrowDistance ==
    call.fn = "createArrowDiagram" =>
        /\ 2 * (pointRad + pointMargin) + 20 = 100
        /\ Cardinality(FactsOf("Connects")) = 1
        /\ \A i \in FactsOf("Connects") :
              /\ db.cons = {GreaterThan(db.facts[i].args[2], db.facts[i].args[3], 100)}
              /\ db.facts[i].args[2] # db.facts[i].args[3]
              /\ (db.promise = "fulfilled" /\ Satisfies(db, layout)) =>
                    Dist2(layout, db.facts[i].args[2], db.facts[i].args[3]) > 100 * 100

C13_Witness ==
    /\ call.fn = "createArrowDiagram"
    /\ db.promise = "fulfilled"
    /\ Satisfies(db, layout)
    /\ Dist2(layout, 1, 2) = 150 * 150

Satellites == InstancesOf(db, "SatelliteCircle")

\* C14: both versions of the circle script create 6 satellites and declare
\* distance > 80 for every two distinct satellites and for no satellite with
\* itself; a layout that satisfies what was declared has every two satellites
\* more than 80 apart.
C14_SatelliteDistance ==
    call.fn \in {"createCircleDiagram", "createCircleDiagramInline"} =>
        /\ 2 * satelliteRadius + 30 = 80
        /\ Cardinality(Satellites) = 6
        /\ \A s1, s2 \in Satellites :
              s1 # s2 => (GreaterThan(s1, s2, 80) \in db.cons
                            \/ GreaterThan(s2, s1, 80) \in db.cons)
        /\ \A c \in db.cons :
              c.kind = "greaterThan" =>
                  (c.a # c.b /\ {c.a, c.b} \subseteq Satellites /\ c.bound = 80)
        /\ (db.promise = "fulfilled" /\ Satisfies(db, layout)) =>
              \A s1, s2 \in Satellites : s1 # s2 => Dist2(layout, s1, s2) > 80 * 80

C14_Witness ==
    /\ call.fn = "createCircleDiagram"
    /\ db.promise = "fulfilled"
    /\ Satisfies(db, layout)
    /\ \A s1, s2 \in Satellites : s1 # s2 => Dist2(layout, s1, s2) > 80 * 80
    /\ GreaterThan(2, 3, 80) \in db.cons
    /\ GreaterThan(3, 2, 80) \in db.cons

\* the facts an instance occurs in
FactsWith(x) ==
    {i \in 1..Len(db.facts) :
        \E k \in 1..Len(db.facts[i].args) : db.facts[i].args[k] = x}

\* C15: whatever Segment calls were made, every edge occurs in exactly one
\* fact, a Connects fact with the edge first, followed by the two points
\* handed to the call that returned the edge.
C15_EdgeInOneConnects ==
    /\ Cardinality(InstancesOf(db, "Edge")) = Len(segments)
    /\ \A e \in InstancesOf(db, "Edge") :
          /\ Cardinality(FactsWith(e)) = 1
          /\ \A i \in FactsWith(e) :
                /\ db.facts[i].pred = "Connects"
                /\ db.facts[i].args[1] = e
                /\ Len(db.facts[i].args) = 3
                /\ \E j \in 1..Len(segments) : segments[j] = db.facts[i].args

C15_Witness ==
    /\ Len(segments) = 3
    /\ \E j, k \in 1..Len(segments) :
          /\ segments[j][2] = segments[j][3]
          /\ segments[k][2] # segments[k][3]
    /\ \A e \in InstancesOf(db, "Edge") : Cardinality(FactsWith(e)) = 1

\* the On facts whose point is p
OnFactsOf(p) == {i \in FactsOf("On") : db.facts[i].args[1] = p}

PointsOn == {db.facts[i].args[1] : i \in FactsOf("On")}

\* C16 as stated: every point that occurs in an On fact occurs in exactly one.
C16_AsStated ==
    call.fn = "createGeometryDiagram" =>
        \A p \in PointsOn : Cardinality(OnFactsOf(p)) = 1

\* C16 amended: every On fact puts one point on one edge; D, E and F occur in
\* one On fact each, and G occurs in three, with three different edges.
C16_OnFactsPerPoint ==
    call.fn = "createGeometryDiagram" =>
        /\ Cardinality(FactsOf("On")) = 6
        /\ \A i \in FactsOf("On") :
              /\ Len(db.facts[i].args) = 2
              /\ db.insts[db.facts[i].args[1]] = "Point"
              /\ db.insts[db.facts[i].args[2]] = "Edge"
        /\ {LabelOr(db, p, "none") : p \in PointsOn} = {"D", "E", "F", "G"}
        /\ \A p \in PointsOn :
              /\ Cardinality(OnFactsOf(p)) = (IF LabelOr(db, p, "none") = "G" THEN 3 ELSE 1)
              /\ Cardinality({db.facts[i].args[2] : i \in OnFactsOf(p)})
                    = Cardinality(OnFactsOf(p))

C16_Witness ==
    /\ call.fn = "createGeometryDiagram"
    /\ db.promise = "pending"
    /\ \E p \in PointsOn : Cardinality(OnFactsOf(p)) = 3
    /\ \E p \in PointsOn : Cardinality(OnFactsOf(p)) = 1

\* C18 as stated: the labels of the geometry diagram are declared with the
\* font size handed to createGeometryDiagram (12 when none is handed).
C18_AsStated ==
    call.fn = "createGeometryDiagram" =>
        /\ db.texts # {}
        /\ \A t \in db.texts : t.fontSize = DefaultParam(call.args)

(***************************************************************************)
(* The eigen lines when a basis vector lies on an axis.                    *)
(***************************************************************************)
\* C21: when the handle of the first basis vector has been dropped on the
\* horizontal axis (its canvas y is the y of the axes origin, which the drag
\* constraint allows), c is 0, the declared greaterThan constraints still
\* hold, the divisor 2c of both eigen-line expressions is 0, and the first
\* component of both directions is not a finite number.
C21_DivisionByZero ==
    (EigenDrawn /\ canvasVec["ihat"][2] = OriginY) =>
        /\ Sign(Ec) = 0
        /\ Sign(NumMul(Num(2), Ec)) = 0
        /\ VecGreaterThanOrigin(eigen.ihat) /\ VecGreaterThanOrigin(eigen.jhat)
        /\ ~IsFinite(EigenDir1(Ea, Eb, Ec, Ed)[1])
        /\ ~IsFinite(EigenDir2(Ea, Eb, Ec, Ed)[1])
        /\ ~IsFinite(eigen.el1.x) /\ ~IsFinite(eigen.el2.x)

C21_Witness ==
    /\ EigenDrawn
    /\ canvasVec["ihat"] = DragConstraint(OriginX + XScale, OriginY - YScale)
    /\ canvasVec["ihat"][2] = OriginY
    /\ Sign(Ec) = 0
    /\ ~IsFinite(eigen.el1.x) /\ ~IsFinite(eigen.el2.x)

\* C28: after any sequence of drags both handles are componentwise at or
\* beyond the axes origin, so a, b, c and d are non-negative and the radicand
\* of the square root is a non-negative finite number (its root is no NaN).
C28_HandlesInQuadrant ==
    EigenDrawn =>
        /\ \A v \in {"ihat", "jhat"} :
              canvasVec[v][1] >= OriginX /\ canvasVec[v][2] >= OriginY
        /\ \A x \in {Ea, Eb, Ec, Ed} : IsFinite(x) /\ Sign(x) >= 0
        /\ IsFinite(EigenDisc(Ea, Eb, Ec, Ed))
        /\ Sign(EigenDisc(Ea, Eb, Ec, Ed)) >= 0
        /\ Sign(Discriminant) >= 0
        /\ IsFinite(NumSqrt(EigenDisc(Ea, Eb, Ec, Ed)))

\* both handles were dropped outside the quadrant and clamped
C28_Witness ==
    /\ EigenDrawn
    /\ canvasVec["ihat"] = DragConstraint(OriginX + XScale, OriginY - YScale)
    /\ canvasVec["jhat"] = DragConstraint(OriginX - XScale, OriginY + 2 * YScale)
    /\ canvasVec["ihat"][2] = OriginY
    /\ canvasVec["jhat"][1] = OriginX
    /\ Sign(EigenDisc(Ea, Eb, Ec, Ed)) > 0

(***************************************************************************)
(* Properties of the effect runs of useDiagram and of the render effect.   *)
(***************************************************************************)
\* the effect runs whose cancelled flag is not set
Uncancelled == {r \in 1..Len(runs) : ~runs[r].cancelled}

\* C25: at any time at most one effect run is un-cancelled, and it is the
\* latest one; whenever a step starts new runs, every earlier run is
\* cancelled after the step; and a build that settles writes the state only
\* if its run is the un-cancelled one, also when another build of the same
\* build function is in flight.
C25_OneLiveRun ==
    /\ [](Cardinality(Uncancelled) <= 1 /\ Uncancelled \subseteq {Cur})
    /\ [][Len(runs') > Len(runs) =>
            \A r \in 1..(Len(runs') - 1) : runs'[r].cancelled]_vars
    /\ [][\A r \in 1..Len(runs) :
            (runs[r].status = "pending" /\ runs'[r].status # "pending"
                /\ nWrites' # nWrites) => Uncancelled = {r}]_vars

\* StrictMode: two builds of the same build function in flight, the first run
\* cancelled; the first build has settled without writing
C25_Witness ==
    /\ Len(runs) = 2
    /\ runs[1].fn = runs[2].fn
    /\ runs[1].cancelled /\ ~runs[2].cancelled
    /\ runs[1].status = "resolved" /\ ~runs[1].applied
    /\ runs[2].status = "pending"
    /\ diagram = NULL

\* C26: the state never goes from one diagram directly to another one: a
\* step that changes a non-null state makes it null, a non-null diagram is
\* written only over null, by the build of its run as it settles, and a
\* settled run never settles (and so never writes) again.
C26_NullBetweenDiagrams ==
    /\ [][(diagram # NULL /\ diagram' # diagram) => diagram' = NULL]_vars
    /\ [][(diagram' # NULL /\ diagram' # diagram) =>
            /\ diagram = NULL
            /\ nWrites' = nWrites + 1
            /\ runs[diagram'].status = "pending"
            /\ runs'[diagram'].status = "resolved"]_vars
    /\ [][\A r \in 1..Len(runs) :
            runs[r].status # "pending" => runs'[r].status = runs[r].status]_vars

\* two diagrams were written, one after the other, with null in between
C26_Witness ==
    /\ Len(runs) >= 2
    /\ runs[1].applied /\ runs[1].status = "resolved"
    /\ runs[2].applied /\ runs[2].status = "resolved"
    /\ diagram = 2
    /\ nWrites >= 4

\* a step in which the renderer receives null leaves the container as it is
NullKeepsContainer ==
    [][propDiagram' = NULL => container' = container]_vars

\* C27 as stated: the renderer receiving null leaves the container as it is,
\* and the container changes only when the element of a later non-null
\* diagram is mounted in it.
C27_AsStated ==
    /\ NullKeepsContainer
    /\ [][container' # container =>
            (propDiagram' # NULL /\ container' = <<propDiagram'>>)]_vars

\* C27 amended: the renderer receiving null leaves the container as it is,
\* and the container changes only when the renderer receives a later
\* non-null diagram: its element is then the only one mounted, or the
\* container is empty when mounting it threw.
C27_KeptUntilNextDiagram ==
    /\ NullKeepsContainer
    /\ [][container' # container =>
            /\ propDiagram' # NULL /\ propDiagram' # propDiagram
            /\ container' = (IF mountThrew' THEN <<>> ELSE <<propDiagram'>>)]_vars

\* the second build failed: the renderer holds null and the element of the
\* first diagram is still mounted
C27_Witness ==
    /\ phase = "mounted"
    /\ Len(runs) >= 2
    /\ runs[2].status = "rejected"
    /\ diagram = NULL /\ propDiagram = NULL
    /\ container = <<1>>

(***************************************************************************)
(* Properties of the copy feedback.                                        *)
(***************************************************************************)
\* C22: a copy request with no svg in the container never writes the
\* clipboard and sets the not-found message; with an svg, its serialized
\* markup is what the request writes, the message becomes the success
\* message as the write resolves (the clipboard then holds the markup) and
\* the failure message when serialization or the write throws or rejects
\* (the clipboard is untouched); the clipboard changes in no other step, and
\* no handler ends with an error.
C22_CopyOutcomes ==
    /\ [][Len(copies') > Len(copies) =>
            LET c == copies'[Len(copies')]
            IN  /\ clipboard' = clipboard
                /\ container = <<>> =>
                      /\ c.write = "none" /\ c.text = NoText
                      /\ copyFeedback' = Message.notFound
                /\ container # <<>> =>
                      \/ /\ c.write = "pending" /\ c.text = <<"svg", container[1]>>
                         /\ c.handler = "pending"
                         /\ copyFeedback' = copyFeedback
                      \/ /\ c.write = "threw" /\ c.text = NoText
                         /\ copyFeedback' = Message.failed]_vars
    /\ [][\A i \in 1..Len(copies) :
            (copies[i].write = "pending" /\ copies'[i].write # "pending") =>
                \/ /\ copies'[i].write = "resolved"
                   /\ clipboard' = <<"svg", container[1]>>
                   /\ copyFeedback' = Message.copied
                \/ /\ copies'[i].write = "rejected"
                   /\ clipboard' = clipboard
                   /\ copyFeedback' = Message.failed]_vars
    /\ [][clipboard' # clipboard =>
            \E i \in 1..Len(copies) :
                copies[i].write = "pending" /\ copies'[i].write = "resolved"]_vars
    /\ [](\A i \in 1..Len(copies) :
            /\ copies[i].handler # "rejected"
            /\ copies[i].write # "pending" => copies[i].handler = "fulfilled")

\* one write has resolved and the next one has rejected
C22_Witness ==
    /\ Len(copies) = 2
    /\ copies[1].write = "resolved"
    /\ clipboard = <<"svg", 1>>
    /\ copies[2].write = "rejected"
    /\ copyFeedback = Message.failed
    /\ feedbackBy = 2

\* the requests whose timer is pending, and those whose write is in flight
PendingTimers == {i \in 1..Len(copies) : copies[i].phase = "timer"}
InFlight == {i \in 1..Len(copies) : copies[i].phase = "writing"}

\* C23: a displayed message always has a pending timer, so that the text is
\* empty whenever all timers have fired, and it stays empty while no request
\* is made or in flight; every message displayed is eventually cleared, and
\* after the last request the text is eventually empty for good.
C23_FeedbackTransient ==
    /\ [](copyFeedback # "" => feedbackBy \in PendingTimers)
    /\ [](PendingTimers = {} => copyFeedback = "")
    /\ [][(copyFeedback = "" /\ InFlight = {} /\ Len(copies') = Len(copies)) =>
            copyFeedback' = ""]_vars
    /\ \A j \in 1..MaxCopies : (feedbackBy = j) ~> (copyFeedback = "")
    /\ (copyFeedback # "") ~> (copyFeedback = "")
    /\ <>[](copyFeedback = "")

\* every request has set a message and every timer has fired
C23_Witness ==
    /\ Len(copies) = MaxCopies
    /\ \A i \in 1..Len(copies) : copies[i].phase = "done" /\ copies[i].msg # ""
    /\ \E i \in 1..Len(copies) : copies[i].shownFor = FeedbackDelay
    /\ copyFeedback = ""

\* C29 as stated: when a request is made less than the delay after an earlier
\* one, its message is displayed for less than the delay.
C29_AsStated ==
    \A j \in 1..Len(copies) :
        (copies[j].phase = "done" /\ copies[j].msg # "" /\ copies[j].nearMade # {})
            => copies[j].shownFor < FeedbackDelay

\* C29 amended: no timer is cancelled, a timer that fires clears the text
\* whichever request set it; when the message of a request is set less than
\* the delay after the message of another request, the timer of that other
\* request fires while the timer of the later message is still pending, and
\* the later message is displayed for less than the delay.
C29_EarlierTimerClears ==
    /\ [][\A i \in 1..Len(copies) :
            (copies[i].phase = "timer" /\ copies'[i].phase = "done") =>
                /\ copyFeedback' = ""
                /\ \A j \in 1..Len(copies) :
                      (feedbackBy = j /\ i \in copies[j].nearSet) =>
                          /\ copies[j].phase = "timer" /\ copies[j].left > 0
                          /\ copies[j].shownFor < FeedbackDelay]_vars
    /\ [](\A j \in 1..Len(copies) :
            (copies[j].phase = "done" /\ copies[j].nearSet # {})
                => copies[j].shownFor < FeedbackDelay)
    /\ [](\A j \in 1..Len(copies) :
            (copies[j].phase = "timer" /\ copies[j].nearSet # {}
                /\ copies[j].left = 0)
                => (copyFeedback = "" \/ feedbackBy # j))

\* the message of the second request was cleared by the timer of the first,
\* 1000 ms after it was set; its own timer is still pending
C29_Witness ==
    /\ Len(copies) = 2
    /\ copies[1].phase = "done"
    /\ copies[2].phase = "timer" /\ copies[2].left > 0
    /\ copies[2].nearSet = {1}
    /\ copies[2].msg = Message.copied
    /\ copies[2].shownFor > 0 /\ copies[2].shownFor < FeedbackDelay
    /\ copyFeedback = ""

(***************************************************************************)
(* The order of the attribute accesses in the eigen script.                *)
(***************************************************************************)
\* the event at position k reads an attribute that was assigned before
AssignedBefore(log, k) ==
    \E j \in 1..(k - 1) : log[j] = Wr(log[k].obj, log[k].attr)

\* the positions at which obj.attr is read
ReadsOf(log, obj, attr) == {k \in 1..Len(log) : log[k] = Rd(obj, attr)}

\* C24: in the eigen script every read of an attribute comes after an
\* assignment of that attribute of the same object; the attributes named are
\* read: label, canvasVec and color of both basis vectors, their vec (by the
\* MappedPoint rule and by the eigen-line expressions), canvasV1 of the
\* mapped point, and vec of both eigenspace lines.
C24_AssignedBeforeRead ==
    (call.fn = "createEigenDiagram") =>
        /\ \A k \in 1..Len(db.attrs) :
              db.attrs[k].op = "read" => AssignedBefore(db.attrs, k)
        /\ \A v \in InstancesOf(db, "BasisVector") :
              /\ \A attr \in {"label", "canvasVec", "color"} :
                    ReadsOf(db.attrs, v, attr) # {}
              /\ Cardinality(ReadsOf(db.attrs, v, "vec")) >= 4
        /\ \A p \in InstancesOf(db, "MappedPoint") :
              ReadsOf(db.attrs, p, "canvasV1") # {}
        /\ \A e \in InstancesOf(db, "EigenspaceLine") :
              ReadsOf(db.attrs, e, "vec") # {}

C24_Witness ==
    /\ call.fn = "createEigenDiagram"
    /\ call.status = "fulfilled"
    /\ Cardinality(InstancesOf(db, "BasisVector")) = 2
    /\ Cardinality(InstancesOf(db, "EigenspaceLine")) = 2
    /\ \E k \in 1..Len(db.attrs) :
          /\ db.attrs[k] = Rd(Ihat(db), "vec")
          /\ db.attrs[k + 2] = Wr(Sorted(InstancesOf(db, "EigenspaceLine"))[1], "vec")

(***************************************************************************)
(* Properties of the On rule.                                              *)
(***************************************************************************)
\* integer coordinates of the point and of the ends of the edge
Px == pts["p"][1].p
Py == pts["p"][2].p
Sx == pts["q"][1].p
Sy == pts["q"][2].p
Ex == pts["r"][1].p
Ey == pts["r"][2].p

\* the point lies on the line through the ends of the edge
OnTheLine == (Px - Sx) * (Ey - Sy) - (Py - Sy) * (Ex - Sx) = 0

\* the point is start + t * (end - start) for some 0 < t < 1
StrictlyBetween ==
    /\ OnTheLine
    /\ (Px - Sx) * (Ex - Sx) + (Py - Sy) * (Ey - Sy) > 0
    /\ (Px - Sx) * (Ex - Sx) + (Py - Sy) * (Ey - Sy)
          < (Ex - Sx) * (Ex - Sx) + (Ey - Sy) * (Ey - Sy)

AtAnEnd == (Px = Sx /\ Py = Sy) \/ (Px = Ex /\ Py = Ey)

ZeroVector(v) == Sign(v[1]) = 0 /\ Sign(v[2]) = 0

\* C30: the constraint of the On rule is satisfied exactly when the point
\* lies strictly between the ends of the edge; for a point on the line through
\* the ends but outside the segment the two unit vectors are opposite (the
\* squared distance is 4), and for a point at an end the rule normalises a
\* zero vector.
C30_OnIffStrictlyBetween ==
    "v1" \in DOMAIN onRule =>
        /\ EqualZero(onRule) <=> StrictlyBetween
        /\ (OnTheLine /\ ~StrictlyBetween /\ ~AtAnEnd) =>
              /\ IsFinite(onRule.distance2)
              /\ onRule.distance2 = Num(4)
        /\ AtAnEnd <=> (ZeroVector(onRule.v1) \/ ZeroVector(onRule.v2))
        /\ AtAnEnd => ~IsFinite(onRule.distance2)

\* the point is between the ends, nearer to the start, on a slanted edge
C30_Witness ==
    /\ "v1" \in DOMAIN onRule
    /\ StrictlyBetween
    /\ Sx # Ex /\ Sy # Ey
    /\ 2 * Px # Sx + Ex
    /\ EqualZero(onRule)
    /\ onRule.v1 # onRule.v2

====
